---------------------------- MODULE Spec2Model ----------------------------
(***************************************************************************)
(* Model of the Zoomer scheduler of jsFractalZoom (src/zoomer.js): the     *)
(* COPY / UPDATE / RENDER / PAINT state machine, its two views, the free   *)
(* frame pool, the two render workers and the Renderer.                    *)
(*                                                                         *)
(* Time is in whole milliseconds.  `clock` is the value performance.now()  *)
(* and Date.now() return (the two differ by a fixed origin only and are    *)
(* compared only with themselves).  frameRate is kept in 1/1000 frames per *)
(* second, so that the 5% reduction is integer arithmetic; the moving      *)
(* averages are kept in whole milliseconds with coef as CoefNum/CoefDen.   *)
(*                                                                         *)
(* The scheduler specification `Spec` is the instance with rotation        *)
(* disabled (enableAngle = false): storage dimensions equal the view       *)
(* dimensions and every frame has angle 0.  It does not track the contents *)
(* of the rulers and of the pixel buffers; it tracks WHICH frame's pixel   *)
(* buffer every setPosition / updateLines call is given to write.          *)
(*                                                                         *)
(* Frames and views are kept by identity in the heaps `fr` and `views`.    *)
(* A frame's identity is that of its buffers: the object a worker posts    *)
(* back owns the buffers that were transferred to it and stands for the    *)
(* same frame.  A TypeError thrown inside a handler ends the handler: what *)
(* it assigned before stays, and it posts no further "mainloop" message.   *)
(*                                                                         *)
(* `SpecRender` is the Renderer on its own: one zoomerRenderFrame call on  *)
(* frames, deadlines and clocks drawn from small sets.                     *)
(*                                                                         *)
(* `SpecView` is one ZoomerView on its own: a setPosition call against a   *)
(* previous view, followed by updateLines calls, with the rulers and the   *)
(* pixel buffers tracked in full.  Coordinates are whole numbers; the      *)
(* radii, centers and dimensions are drawn from sets on which every        *)
(* division the code makes is exact.                                       *)
(*                                                                         *)
(* `SpecPipeline` is the scheduler with workers enabled and a fixed        *)
(* surface, followed for more frames than `Spec` follows.                  *)
(*                                                                         *)
(* `SpecIdle` is the scheduler with workers enabled and a wake timestamp   *)
(* set by the application, followed through UPDATE ticks in wake and in    *)
(* idle mode.                                                              *)
(*                                                                         *)
(* `SpecRuler`, `SpecFirst`, `SpecDims` and `SpecPool` take one part each  *)
(* on its own: a makeRuler call, a new ZoomerView (setPosition without a   *)
(* previous view, reachedLimits), the display and storage dimensions with  *)
(* and without rotation, and the frame pool (allocFrame and release).      *)
(*                                                                         *)
(* `SpecCopy` is the scheduler started after the application positioned   *)
(* the key view, with the statements of each COPY tick logged in the order *)
(* they run and the center each setPosition call is given.                 *)
(*                                                                         *)
(* `SpecLive` is the scheduler with the delivery of the pending "mainloop" *)
(* message weakly fair: the browser delivers every posted message.         *)
(***************************************************************************)
EXTENDS Integers, Sequences, FiniteSets, TLC

(***************************************************************************)
(* Program constants                                                       *)
(***************************************************************************)
STOP == 0
COPY == 1
UPDATE == 2
RENDER == 3
PAINT == 4

\* options.frameRate default (frames per second)
DefaultFrameRate == 20
\* options.updateSlice default (ms)
DefaultUpdateSlice == 5
\* options.updateIdleBurst default (ms)
DefaultUpdateIdleBurst == 500
\* options.coef default 0.10 = CoefNum / CoefDen
CoefNum == 1
CoefDen == 10
\* a drop lowers the frame rate only after this many ms since the last one
DropWindow == 2000
\* the frame rate is lowered by DropPercent / 100
DropPercent == 5
\* options.wakeTimeout default (ms)
DefaultWakeTimeout == 500
\* UPDATE is idle when the last wake is at least this many ms ago
IdleAfter == 1000

(***************************************************************************)
(* Bounds of the model                                                     *)
(***************************************************************************)
\* the clock is not advanced past MaxTime
MaxTime == 2300
\* no COPY tick starts once frameNr has reached MaxFrameNr
MaxFrameNr == 2
\* at most MaxFrames ZoomerFrame objects are ever constructed
MaxFrames == 3
\* at most MaxViews ZoomerView objects are ever constructed
MaxViews == 4
\* at most MaxCalls updateLines calls are followed within one UPDATE tick
MaxCalls == 2
\* at most MaxPending "mainloop" messages are queued at a time
MaxPending == 2
\* at most MaxAppCalls calls of the application are followed
MaxAppCalls == 4
\* SpecPipeline: no COPY tick starts once frameNr has reached it
MaxPipelineFrameNr == 3
\* SpecView: at most MaxLineCalls updateLines calls are followed on the view
MaxLineCalls == 7
\* SpecIdle: no COPY tick starts once frameNr has reached it
MaxIdleFrameNr == 2
\* SpecDims: the parent element is at most MaxClient pixels wide and high
MaxClient == 7
\* SpecPool: at most MaxPoolOps allocFrame calls and releases are followed
MaxPoolOps == 6
\* SpecRuler: the source ruler of a makeRuler call holds at most MaxSourceStops
\* stops
MaxSourceStops == 3
\* SpecLive: COPY ticks are followed up to frame number MaxLiveFrameNr
MaxLiveFrameNr == 3
\* the frame number up to which the COPY tick is followed statement by statement
MaxCopyFrameNr == 2

\* the client sizes <<clientWidth, clientHeight>> the surface takes
DomSizes == {<<2, 2>>, <<5, 2>>}
\* the client size at construction
InitialDom == <<2, 2>>
\* measured cost (ms) of one View.setPosition in a COPY tick
CopyCosts == {40}
\* measured cost (ms) of one zoomerRenderFrame call that renders
RenderCosts == {0, 12}
\* measured cost (ms) of onPutImageData
PaintCosts == {1}
\* measured cost (ms) of one updateLines call
LineCosts == {0, 5, 120}
\* time (ms) that passes between two events
ElapseSteps == {2001}

\* `undefined` in a frame or view slot (frame and view identities start at 1)
Undef == 0
\* frame.palette = null
NoPalette == <<>>

Min(a, b) == IF a < b THEN a ELSE b
Parity(n) == n % 2


\* `n & ~1` for a non-negative integer: lowered to the next even number
Snap(n) == n - (n % 2)

(***************************************************************************)
(* State                                                                   *)
(***************************************************************************)
VARIABLES
    state,              \* Zoomer.state
    frameNr,            \* Zoomer.frameNr
    disableWW,          \* Zoomer.disableWW (fixed at construction)
    dom,                \* <<clientWidth, clientHeight>> of the surface's parent
    viewWidth,          \* Zoomer.viewWidth  (= pixelWidth, rotation disabled)
    viewHeight,         \* Zoomer.viewHeight (= pixelHeight, rotation disabled)
    views,              \* the ZoomerView objects constructed so far, by identity
    view0, view1,       \* Zoomer.view0, Zoomer.view1 (view identities)
    calcView, dispView, \* Zoomer.calcView, Zoomer.dispView (view identities)
    calcFrame,          \* Zoomer.calcFrame (frame identity or Undef)
    frames,             \* Zoomer.frames, the free pool (frame identities)
    fr,                 \* the ZoomerFrame objects constructed so far, by identity
    inbox,              \* per worker: frames posted to it, not yet rendered
    outbox,             \* per worker: frames it posted back, not yet handled
    pending,            \* number of queued "mainloop" self-messages
    clock,              \* performance.now() / Date.now()
    stateStart,         \* Zoomer.stateStart[]
    avgStateDuration,   \* Zoomer.avgStateDuration[]
    frameRate,          \* Zoomer.frameRate, in 1/1000 frames per second
    timeLastDrop,       \* Zoomer.timeLastDrop
    timeLastWake,       \* Zoomer.timeLastWake (0: the application never idles)
    cntDropped,         \* Zoomer.cntDropped
    hops,               \* history: the values Zoomer.state took in the last step
    written,            \* history: frames whose pixels the last step wrote
    tick,               \* history: the last mainloop tick that did work
    fh,                 \* history, per frame: hand-offs, returns, pushes, paints
    dropNow,            \* history: the `now` of the last drop accounting
    calls,              \* history: the number of application calls so far
    kview,              \* SpecView: the previous view, as setPosition reads it
    cview,              \* SpecView: the ZoomerView, its rulers included
    cframe,             \* SpecView: the ZoomerFrame given to the view
    vop                 \* SpecView, history: the view's last call

vars == <<state, frameNr, disableWW, dom, viewWidth, viewHeight, views, view0,
          view1, calcView, dispView, calcFrame, frames, fr, inbox, outbox,
          pending, clock, stateStart, avgStateDuration, frameRate,
          timeLastDrop, timeLastWake, cntDropped, hops, written, tick, fh,
          dropNow, calls, kview, cview, cframe, vop>>

\* the variables of SpecView
viewVars == <<kview, cview, cframe, vop>>

States == {STOP, COPY, UPDATE, RENDER, PAINT}
Workers == {0, 1}

(***************************************************************************)
(* ZoomerFrame, ZoomerView                                                 *)
(***************************************************************************)
\* new ZoomerFrame(viewWidth, viewHeight, pixelWidth, pixelHeight); quality is
\* kept as the fraction <<numerator, denominator>>
ZoomerFrame(vw, vh, pw, ph) ==
    [viewWidth |-> vw, viewHeight |-> vh, pixelWidth |-> pw, pixelHeight |-> ph,
     angle |-> 0,
     rgba |-> [k \in 1..(vw * vh) |-> 0],
     pixels |-> [k \in 1..(pw * ph) |-> 0],
     palette |-> NoPalette,
     timeExpire |-> 0,
     durationRENDER |-> 0,
     cntPixels |-> 0, cntHLines |-> 0, cntVLines |-> 0,
     quality |-> <<0, 1>>]

\* new ZoomerView(viewWidth, viewHeight, pixelWidth, pixelHeight): no frame and
\* no pixels bound yet
ZoomerView(vw, vh, pw, ph) ==
    [viewWidth |-> vw, viewHeight |-> vh, pixelWidth |-> pw, pixelHeight |-> ph,
     frame |-> Undef, pixels |-> Undef]

\* View.setPosition(frame, ..., previousView) as far as the scheduler sees it:
\* the view binds the frame and its pixels first, and then throws on the first
\* pixel it reads when the previous view has no pixels
BindView(vs, v, frame) == [vs EXCEPT ![v].frame = frame, ![v].pixels = frame]

SetPositionThrows(vs, v, previousView) == vs[previousView].pixels = Undef

\* variant: only the view dimensions are compared
DimsMatchView(f, vw, vh, pw, ph) ==
    /\ f.viewWidth = vw
    /\ f.viewHeight = vh

\* the frame's dimensions are the requested ones
DimsMatch(f, vw, vh, pw, ph) ==
    /\ f.viewWidth = vw
    /\ f.viewHeight = vh
    /\ f.pixelWidth = pw
    /\ f.pixelHeight = ph

\* the pool after shifting off the leading frames of other dimensions
RECURSIVE ShiftMismatched(_, _, _, _, _, _)
ShiftMismatched(pool, heap, vw, vh, pw, ph) ==
    IF pool = <<>> THEN pool
    ELSE IF DimsMatch(heap[Head(pool)], vw, vh, pw, ph) THEN pool
    ELSE ShiftMismatched(Tail(pool), heap, vw, vh, pw, ph)

\* variant: the frame handed out stays in the pool
LeftInPool(rest) == rest

\* "let frame = this.frames.shift()": the pool without the frame handed out
ShiftedOff(rest) == Tail(rest)

\* allocFrame: the frame returned (id), the pool and the heap after the call.
\* A reused frame keeps its buffers and its timeExpire; its statistics are reset.
allocFrame(pool, heap, vw, vh, pw, ph, angle) ==
    LET rest == ShiftMismatched(pool, heap, vw, vh, pw, ph)
        id == IF rest = <<>> THEN Len(heap) + 1 ELSE Head(rest)
        base == IF rest = <<>> THEN ZoomerFrame(vw, vh, pw, ph) ELSE heap[id]
        frame == [base EXCEPT !.angle = angle, !.durationRENDER = 0,
                              !.cntPixels = 0, !.cntHLines = 0, !.cntVLines = 0]
    IN  [id |-> id,
         pool |-> IF rest = <<>> THEN rest ELSE ShiftedOff(rest),
         heap |-> IF rest = <<>> THEN Append(heap, frame)
                  ELSE [heap EXCEPT ![id] = frame]]

\* Math.ceil(Math.sqrt(n)) of a whole number n
CeilSqrt(n) == CHOOSE r \in 0..n : r * r >= n /\ \A q \in 0..(r - 1) : q * q < n

\* the storage width for a view: the view's width without rotation, and
\* Math.ceil(Math.sqrt(vw * vw + vh * vh)) & ~1 with it
PixelWidthFor(enableAngle, vw, vh) ==
    IF ~enableAngle THEN vw ELSE Snap(CeilSqrt(vw * vw + vh * vh))

\* the storage height: the view's height without rotation, the storage width
\* with it
PixelHeightFor(enableAngle, vw, vh) ==
    IF ~enableAngle THEN vh ELSE PixelWidthFor(enableAngle, vw, vh)

(***************************************************************************)
(* Renderer                                                                *)
(***************************************************************************)
\* palette[code] of a Uint32Array palette (index 0 is palette[1] here); a code
\* outside the palette reads undefined, which a Uint32Array stores as 0
PaletteAt(palette, code) ==
    IF (code + 1) \in DOMAIN palette THEN palette[code + 1] ELSE 0

\* src.subarray(srcOffset, srcOffset + length) copied to dst at dstOffset
\* (0-based offsets; both are clamped to the source's length)
zoomerMemcpy(dst, dstOffset, src, srcOffset, length) ==
    LET avail == IF srcOffset >= Len(src) THEN 0
                 ELSE Min(length, Len(src) - srcOffset)
    IN  [k \in DOMAIN dst |->
            IF k - 1 >= dstOffset /\ k - 1 < dstOffset + avail
            THEN src[srcOffset + (k - 1 - dstOffset) + 1]
            ELSE dst[k]]

\* the cropped path: one zoomerMemcpy per view row, rows v..viewHeight-1
RECURSIVE CopyRows(_, _, _, _, _)
CopyRows(frame, rgba, v, vu, ji) ==
    IF v >= frame.viewHeight THEN rgba
    ELSE CopyRows(frame,
                  zoomerMemcpy(rgba, vu, frame.pixels, ji, frame.viewWidth),
                  v + 1, vu + frame.viewWidth, ji + frame.pixelWidth)

\* variant: the pixels left and right of the view are not skipped
PaletteSourcePacked(frame, ji, v, u) == ji + v * frame.viewWidth + u

\* the palette loop: the value of ji when rgba[v * viewWidth + u] is written.
\* ji grows by 1 per pixel and by pixelWidth - viewWidth more per row.
PaletteSource(frame, ji, v, u) == ji + v * frame.pixelWidth + u

\* the rgba buffer zoomerRenderFrame produces for angle = 0
ExtractView(frame) ==
    LET i == (frame.pixelWidth - frame.viewWidth) \div 2
        j == (frame.pixelHeight - frame.viewHeight) \div 2
        ji == j * frame.pixelWidth + i
    IN  IF frame.palette # NoPalette
        THEN [vu \in DOMAIN frame.rgba |->
                LET v == (vu - 1) \div frame.viewWidth
                    u == (vu - 1) % frame.viewWidth
                IN  PaletteAt(frame.palette,
                              frame.pixels[PaletteSource(frame, ji, v, u) + 1])]
        ELSE IF frame.pixelWidth = frame.viewWidth
        THEN zoomerMemcpy(frame.rgba, 0, frame.pixels, ji,
                          frame.viewWidth * frame.viewHeight)
        ELSE CopyRows(frame, frame.rgba, 0, 0, ji)

\* zoomerRenderFrame(frame) entered when Date.now() = dateNow; `measured` is
\* performance.now() at the end minus performance.now() at the start
zoomerRenderFrame(frame, dateNow, measured) ==
    IF dateNow >= frame.timeExpire
    THEN [frame EXCEPT !.durationRENDER = 0]
    ELSE [frame EXCEPT !.rgba = ExtractView(frame),
                       !.durationRENDER = measured]


(***************************************************************************)
(* ZoomerView: rulers, setPosition, updateLines                            *)
(*                                                                         *)
(* A ruler array holds element i of the source at position i + 1; the     *)
(* values of xFrom / yFrom are the source's 0-based indices, or -1.        *)
(***************************************************************************)
Abs(x) == IF x < 0 THEN 0 - x ELSE x

\* a new Float64Array(n) or Int32Array(n)
Zeroes(n) == [k \in 1..n |-> 0]

\* the rulers a new ZoomerView holds
Rulers(pw, ph) ==
    [xCoord |-> Zeroes(pw), xNearest |-> Zeroes(pw), xError |-> Zeroes(pw),
     xFrom |-> Zeroes(pw),
     yCoord |-> Zeroes(ph), yNearest |-> Zeroes(ph), yError |-> Zeroes(ph),
     yFrom |-> Zeroes(ph)]

\* a ZoomerView with its rulers
RuledView(vw, vh, pw, ph) == ZoomerView(vw, vh, pw, ph) @@ Rulers(pw, ph)

\* buf[k] of a typed array: undefined outside it, which is stored as 0
PixelRead(buf, k) == IF (k + 1) \in DOMAIN buf THEN buf[k + 1] ELSE 0

\* variant: the next source stop is taken only when it is strictly better
NextIsBetterStrict(nextError, currError) == nextError < currError

\* makeRuler, "bump if next source stop is better"
NextIsBetter(nextError, currError) == nextError <= currError

\* the while loop of makeRuler: the source index it leaves in iOld.  Past the
\* last source stop oldNearest[iOld + 1] is undefined, nextError is NaN and the
\* comparison is false.
RECURSIVE Bump(_, _, _)
Bump(currCoord, oldNearest, iOld) ==
    IF /\ iOld < Len(oldNearest) - 1
       /\ NextIsBetter(Abs(currCoord - oldNearest[iOld + 2]),
                       Abs(currCoord - oldNearest[iOld + 1]))
    THEN Bump(currCoord, oldNearest, iOld + 1)
    ELSE iOld

\* variant: every new stop counts as exact
ExactStopAlways(currError) == TRUE

\* "if (currError === 0) cntExact++"
ExactStop(currError) == currError = 0

\* variant: the stop records the source stop after the one it took
StoredFromNext(iOld) == iOld + 1

\* "newFrom[iNew] = iOld"
StoredFrom(iOld) == iOld

\* the for loop of makeRuler from iNew on, for n new stops and a source ruler
\* that is not empty
RECURSIVE MakeStops(_, _, _, _, _, _, _)
MakeStops(start, end, n, oldNearest, iNew, iOld, R) ==
    IF iNew >= n THEN R
    ELSE LET currCoord == ((end - start) * iNew) \div (n - 1) + start
             i == Bump(currCoord, oldNearest, iOld)
             currError == Abs(currCoord - oldNearest[i + 1])
         IN  MakeStops(start, end, n, oldNearest, iNew + 1, i,
                [coord |-> Append(R.coord, currCoord),
                 nearest |-> Append(R.nearest, oldNearest[i + 1]),
                 error |-> Append(R.error, currError),
                 from |-> Append(R.from, StoredFrom(i)),
                 cntExact |-> R.cntExact + (IF ExactStop(currError) THEN 1 ELSE 0)])

\* the loop after the for loop, "copy the only option", entered with iNew new
\* stops done of n: its body assigns to the arrays and leaves iNew and n
\* alone, so it ends only when its condition is false on entry
TrailingLoopEnds(iNew, n) == ~(iNew < n)

\* makeRuler(start, end, newCoord, newNearest, newError, newFrom, oldNearest):
\* the four arrays it fills, the count it returns and whether it returns.  The
\* for loop runs while iOld < oldNearest.length: with a source ruler that is
\* not empty it does all n stops, with an empty one it does none.
makeRuler(start, end, n, oldNearest) ==
    LET none == [coord |-> <<>>, nearest |-> <<>>, error |-> <<>>,
                 from |-> <<>>, cntExact |-> 0]
    IN  IF Len(oldNearest) = 0
        THEN none @@ [returns |-> TrailingLoopEnds(0, n)]
        ELSE MakeStops(start, end, n, oldNearest, 0, 0, none)
                @@ [returns |-> TrailingLoopEnds(n, n)]

\* variant: a stop is marked also when its neighbour's error is the same
OutrankedOrEqual(error, neighbour) == error >= neighbour

\* "keep the `From`s with lowest error": the stop with the higher error loses
Outranked(error, neighbour) == error > neighbour

\* for (i = 1; i < n; i++) if (from[i-1] === from[i] && error[i-1] > error[i])
\*     from[i-1] = -1
RECURSIVE MarkForward(_, _, _)
MarkForward(from, error, i) ==
    IF i >= Len(from) THEN from
    ELSE MarkForward(IF from[i] = from[i + 1] /\ Outranked(error[i], error[i + 1])
                     THEN [from EXCEPT ![i] = -1] ELSE from,
                     error, i + 1)

\* for (i = n - 2; i >= 0; i--) if (from[i+1] === from[i] && error[i+1] > error[i])
\*     from[i+1] = -1
RECURSIVE MarkBackward(_, _, _)
MarkBackward(from, error, i) ==
    IF i < 0 THEN from
    ELSE MarkBackward(IF from[i + 2] = from[i + 1]
                         /\ Outranked(error[i + 2], error[i + 1])
                      THEN [from EXCEPT ![i + 2] = -1] ELSE from,
                      error, i - 1)

\* both passes over one axis
MarkDuplicates(from, error) ==
    MarkBackward(MarkForward(from, error, 1), error, Len(from) - 2)

\* variant: every followup line is copied from the line above it
SameLineAlways(yFrom, j) == TRUE

\* "this line is identical to the previous"
SameLine(yFrom, j) == yFrom[j + 1] = yFrom[j]

\* "copy/inherit pixels" from line j on: a line is extracted from the previous
\* frame, or copied within the new buffer from the line above it
RECURSIVE InheritLines(_, _, _, _, _, _, _)
InheritLines(pixels, pixelWidth, pixelHeight, xFrom, yFrom, old, j) ==
    IF j >= pixelHeight THEN pixels
    ELSE LET ji == j * pixelWidth
             k == yFrom[j + 1] * old.pixelWidth
             copied == j >= 1 /\ SameLine(yFrom, j)
             line == [i \in 0..(pixelWidth - 1) |->
                        IF copied THEN PixelRead(pixels, ji - pixelWidth + i)
                        ELSE PixelRead(old.pixels, k + xFrom[i + 1])]
         IN  InheritLines([p \in DOMAIN pixels |->
                              IF p - 1 >= ji /\ p - 1 < ji + pixelWidth
                              THEN line[p - 1 - ji] ELSE pixels[p]],
                          pixelWidth, pixelHeight, xFrom, yFrom, old, j + 1)

\* ZoomerView.setPosition(frame, centerX, centerY, radius, previousView) with a
\* previous view: the view and the frame after the call, and the rulers as
\* makeRuler built them
setPosition(view, frame, centerX, centerY, radius, previousView) ==
    LET landscape == view.viewWidth > view.viewHeight
        radiusPixelHor == IF landscape
                          THEN (radius * view.pixelWidth) \div view.viewHeight
                          ELSE (radius * view.pixelWidth) \div view.viewWidth
        radiusPixelVer == IF landscape
                          THEN (radius * view.pixelHeight) \div view.viewHeight
                          ELSE (radius * view.pixelHeight) \div view.viewWidth
        X == makeRuler(centerX - radiusPixelHor, centerX + radiusPixelHor,
                       view.pixelWidth, previousView.xNearest)
        Y == makeRuler(centerY - radiusPixelVer, centerY + radiusPixelVer,
                       view.pixelHeight, previousView.yNearest)
        cnt == frame.cntPixels + X.cntExact * Y.cntExact
    IN  [view |-> [view EXCEPT
                    !.frame = 1, !.pixels = 1,
                    !.xCoord = X.coord, !.xNearest = X.nearest,
                    !.xError = X.error,
                    !.xFrom = MarkDuplicates(X.from, X.error),
                    !.yCoord = Y.coord, !.yNearest = Y.nearest,
                    !.yError = Y.error,
                    !.yFrom = MarkDuplicates(Y.from, Y.error)],
         frame |-> [frame EXCEPT
                    !.pixels = InheritLines(frame.pixels, view.pixelWidth,
                                            view.pixelHeight, X.from, Y.from,
                                            previousView, 0),
                    !.cntPixels = cnt,
                    !.cntHLines = @ + X.cntExact,
                    !.cntVLines = @ + Y.cntExact,
                    !.quality = <<cnt, frame.pixelWidth * frame.pixelHeight>>],
         X |-> X, Y |-> Y]

\* new ZoomerView(viewWidth, viewHeight, pixelWidth, pixelHeight) with its
\* rulers, where the pixel dimensions may be left out (Undef) and then default
\* to the view dimensions.  argPixelHeight is the constructor's parameter
\* pixelHeight, which the methods of the view close over.
NewView(vw, vh, pw, ph) ==
    RuledView(vw, vh, IF pw # Undef THEN pw ELSE vw,
              IF ph # Undef THEN ph ELSE vh) @@ [argPixelHeight |-> ph]

\* "simple linear fill of rulers": i * (max - min) / length + min
LinearStop(i, length, min, max) == (i * (max - min)) \div length + min

\* ZoomerView.setPosition(frame, centerX, centerY, radius) without a previous
\* view: the view after the call and whether the call throws.  The body of the
\* y loop indexes yNearest and yCoord with i, which setPosition, ZoomerView
\* and the file do not declare: reading it throws a ReferenceError unless the
\* page has a global of that name.  globals holds the value of that global,
\* and is empty when there is none.
firstSetPosition(view, centerX, centerY, radius, globals) ==
    LET landscape == view.viewWidth > view.viewHeight
        radiusPixelHor == IF landscape
                          THEN (radius * view.pixelWidth) \div view.viewHeight
                          ELSE (radius * view.pixelWidth) \div view.viewWidth
        radiusPixelVer == IF landscape
                          THEN (radius * view.pixelHeight) \div view.viewHeight
                          ELSE (radius * view.pixelHeight) \div view.viewWidth
        xs == [k \in 1..view.pixelWidth |->
                 LinearStop(k - 1, view.pixelWidth, centerX - radiusPixelHor,
                            centerX + radiusPixelHor)]
        xdone == [view EXCEPT !.frame = 1, !.pixels = 1,
                              !.xCoord = xs, !.xNearest = xs,
                              !.xError = Zeroes(view.pixelWidth),
                              !.xFrom = [k \in 1..view.pixelWidth |-> -1]]
    IN  IF view.pixelHeight = 0 THEN [view |-> xdone, throws |-> FALSE]
        ELSE IF globals = {} THEN [view |-> xdone, throws |-> TRUE]
        ELSE LET i == CHOOSE g \in globals : TRUE
                 y == LinearStop(i, view.pixelHeight, centerY - radiusPixelVer,
                                 centerY + radiusPixelVer)
                 ys == [k \in 1..view.pixelHeight |->
                          IF k = i + 1 THEN y ELSE view.yCoord[k]]
             IN  [view |-> [xdone EXCEPT
                              !.yCoord = ys,
                              !.yNearest = [k \in 1..view.pixelHeight |->
                                  IF k = i + 1 THEN y ELSE view.yNearest[k]],
                              !.yError = Zeroes(view.pixelHeight),
                              !.yFrom = [k \in 1..view.pixelHeight |-> -1]],
                  throws |-> FALSE]

\* ZoomerView.reachedLimits(): the x loop runs to this.pixelWidth, the y loop
\* to the constructor's parameter pixelHeight
reachedLimits(view) ==
    \/ \E i \in 1..(view.pixelWidth - 1) : view.xCoord[i] = view.xCoord[i + 1]
    \/ \E j \in 1..(view.argPixelHeight - 1) :
            view.yCoord[j] = view.yCoord[j + 1]

\* zoomer.onUpdatePixel(zoomer, frame, x, y): the code of the point
Calc(x, y) == ((x + 3 * y) % 5) + 2

\* variant: the last of the stops with the highest error is the worst
WorseOrSame(error, worst) == error >= worst

\* "which tabstops have the worst error": a later stop replaces the worst one
\* when its error is higher
Worse(error, worst) == error > worst

\* the scan for the worst stop from source index i on; wi is the worst so far
RECURSIVE WorstFrom(_, _, _)
WorstFrom(error, i, wi) ==
    IF i >= Len(error) THEN wi
    ELSE WorstFrom(error, i + 1,
                   IF Worse(error[i + 1], error[wi + 1]) THEN i ELSE wi)

\* worstXi / worstYj
WorstIndex(error) == WorstFrom(error, 1, 0)

\* variant: updateLines works even when no error is left
NothingToDoNever(worstXerr, worstYerr) == FALSE

\* "nothing to do"
NothingToDo(worstXerr, worstYerr) == worstXerr + worstYerr = 0

\* variant: the column is taken when its error is the lower one
ColumnFirstWhenLower(worstXerr, worstYerr) == worstXerr < worstYerr

\* the column is recalculated when its error is the higher one, else the row
ColumnFirst(worstXerr, worstYerr) == worstXerr > worstYerr

\* variant: only the cross points of exact lines are calculated
CrossPointExactOnly(error, from, k) == k = 0 \/ error[k + 1] = 0

\* "only calculate cross points of exact lines, fill the others": whether the
\* point on the crossing line at source index k is calculated
CrossPoint(error, from, k) == k = 0 \/ error[k + 1] = 0 \/ from[k + 1] # -1

\* the pixel function at crossing coordinate c of the line at coordinate `at`:
\* a column's points are (at, c), a row's points are (c, at)
LinePoint(column, at, c) == IF column THEN Calc(at, c) ELSE Calc(c, at)

\* the values written along the line, crossing index 0 to k: a point that is
\* not calculated repeats the value before it
RECURSIVE LineValues(_, _, _, _, _, _)
LineValues(column, at, coord, error, from, k) ==
    IF k = 0 THEN <<LinePoint(column, at, coord[1])>>
    ELSE LET before == LineValues(column, at, coord, error, from, k - 1)
         IN  Append(before, IF CrossPoint(error, from, k)
                            THEN LinePoint(column, at, coord[k + 1])
                            ELSE before[k])

\* the last line index the recalculated line is copied to: the lines after l
\* up to the first that is exact or inherited
RECURSIVE FillEnd(_, _, _)
FillEnd(error, from, l) ==
    IF l + 1 < Len(error) /\ error[l + 2] # 0 /\ from[l + 2] = -1
    THEN FillEnd(error, from, l + 1)
    ELSE l

\* variant: the recalculated line keeps its error
ErrorKept(error) == error

\* "xError[i] = 0" / "yError[j] = 0": the error of the recalculated line
ErrorCleared(error) == 0

\* ZoomerView.updateLines(zoomer): the view and the frame after the call, and
\* the points the pixel function was called for
updateLines(view, frame) ==
    LET worstXi == WorstIndex(view.xError)
        worstYj == WorstIndex(view.yError)
        worstXerr == view.xError[worstXi + 1]
        worstYerr == view.yError[worstYj + 1]
        pw == view.pixelWidth
        ph == view.pixelHeight
    IN  IF NothingToDo(worstXerr, worstYerr)
        THEN [view |-> view, frame |-> frame, points |-> {}]
        ELSE IF ColumnFirst(worstXerr, worstYerr)
        THEN LET i == worstXi
                 x == view.xCoord[i + 1]
                 vals == LineValues(TRUE, x, view.yCoord, view.yError,
                                    view.yFrom, ph - 1)
                 pts == {j \in 0..(ph - 1) :
                            CrossPoint(view.yError, view.yFrom, j)}
                 last == FillEnd(view.xError, view.xFrom, i)
                 cnt == frame.cntPixels + Cardinality(pts)
             IN  [view |-> [view EXCEPT !.xNearest[i + 1] = x,
                                        !.xError[i + 1] = ErrorCleared(@)],
                  frame |-> [frame EXCEPT
                     !.pixels = [p \in DOMAIN frame.pixels |->
                        IF (p - 1) % pw >= i /\ (p - 1) % pw <= last
                        THEN vals[(p - 1) \div pw + 1] ELSE frame.pixels[p]],
                     !.cntPixels = cnt,
                     !.cntVLines = @ + 1,
                     !.quality = <<cnt, frame.pixelWidth * frame.pixelHeight>>],
                  points |-> {<<x, view.yCoord[j + 1]>> : j \in pts}]
        ELSE LET j == worstYj
                 y == view.yCoord[j + 1]
                 vals == LineValues(FALSE, y, view.xCoord, view.xError,
                                    view.xFrom, pw - 1)
                 pts == {i \in 0..(pw - 1) :
                            CrossPoint(view.xError, view.xFrom, i)}
                 last == FillEnd(view.yError, view.yFrom, j)
                 cnt == frame.cntPixels + Cardinality(pts)
             IN  [view |-> [view EXCEPT !.yNearest[j + 1] = y,
                                        !.yError[j + 1] = ErrorCleared(@)],
                  frame |-> [frame EXCEPT
                     !.pixels = [p \in DOMAIN frame.pixels |->
                        IF (p - 1) \div pw >= j /\ (p - 1) \div pw <= last
                        THEN vals[((p - 1) % pw) + 1] ELSE frame.pixels[p]],
                     !.cntPixels = cnt,
                     !.cntHLines = @ + 1,
                     !.quality = <<cnt, frame.pixelWidth * frame.pixelHeight>>],
                  points |-> {<<view.xCoord[i + 1], y>> : i \in pts}]

(***************************************************************************)
(* Scheduler arithmetic                                                    *)
(***************************************************************************)
\* 1000 / frameRate in ms, frameRate being in 1/1000 frames per second
Period(rate) == (1000 * 1000) \div rate

\* avg += (x - avg) * coef
LowPass(avg, x) == avg + ((x - avg) * CoefNum) \div CoefDen

\* the view of the current frame number: (frameNr & 1) ? view1 : view0
ParityView(nr, v0, v1) == IF Parity(nr) = 1 THEN v1 ELSE v0

\* variant: the update loop works on the view of the other parity
TickViewOther(nr, v0, v1) == IF Parity(nr) = 1 THEN v0 ELSE v1

\* mainloop's local `view`, taken before the state is looked at
TickView(nr, v0, v1) == ParityView(nr, v0, v1)

\* variant: COPY goes to the inline render exactly when workers are enabled
CopyNextStateSwapped(dww) == IF dww THEN UPDATE ELSE RENDER

\* the state a COPY tick ends in
CopyNextState(dww) == IF dww THEN RENDER ELSE UPDATE

\* variant: the inline render paints whatever the Renderer left
RenderNextStateAlwaysPaint(durationRENDER) == PAINT

\* the state an inline RENDER goes to: PAINT unless the frame was not rendered
RenderNextState(durationRENDER) == IF durationRENDER # 0 THEN PAINT ELSE COPY

\* the worker listener's test for a dropped frame
IsDropped(durationRENDER) == durationRENDER = 0

\* variant: every drop lowers the frame rate
DropThrottleEveryDrop(rate, lastDrop, now) ==
    [frameRate |-> rate - (rate * DropPercent) \div 100, timeLastDrop |-> now]

\* drop accounting: after 2 seconds of adaptation lower the frame rate by 5%
DropThrottle(rate, lastDrop, now) ==
    IF now - lastDrop > DropWindow
    THEN [frameRate |-> rate - (rate * DropPercent) \div 100, timeLastDrop |-> now]
    ELSE [frameRate |-> rate, timeLastDrop |-> lastDrop]

\* the next frame syncpoint as UPDATE first computes it
NextSyncRaw(now, lastWake, startCopy, rate, avg, dww) ==
    IF lastWake # 0 /\ now - lastWake >= IdleAfter
    THEN startCopy + DefaultUpdateIdleBurst
    ELSE startCopy + Period(rate) - avg[COPY] - avg[PAINT]
         - (IF dww THEN avg[RENDER] ELSE 0)

\* "let it run for at least one slice"
NextSync(raw, now, slice) == IF raw < now + slice THEN now + slice ELSE raw

\* variant: the update loop is not throttled to the time slice
SliceEndUnclamped(nextsync, now, slice) == nextsync

\* "throttle to time slice": the end time of this tick's update loop
SliceEnd(nextsync, now, slice) ==
    IF nextsync > now + slice THEN now + slice ELSE nextsync

\* variant: the update loop runs once more when the clock is at its end time
LoopContinuesInclusive(now, etime) == now <= etime

\* the update loop's condition
LoopContinues(now, etime) == now < etime

\* variant: the overshoot is measured from the start of the tick
OvershootFromStart(now, nextsync, t0) == now - t0

\* "register overshoot": what the tick adds to timeOvershoot
Overshoot(now, nextsync, t0) == now - nextsync

\* variant: the state changes only once the clock is past the end time
SyncReachedLate(now, etime) == now > etime

\* "end time reached?"
SyncReached(now, etime) == now >= etime

\* variant: the frame goes to the worker of the other parity
WorkerOfOther(nr) == Parity(nr + 1)

\* the worker a COPY tick transfers its frame to: WWorkers[frameNr & 1]
WorkerOf(nr) == Parity(nr)

\* variant: mainloop goes on in every state
MainloopRunsAlways(s) == TRUE

\* mainloop returns at once when the state is STOP: if (!this.state) return
MainloopRuns(s) == s # STOP

\* while (now < etime) { view.updateLines(this); now = performance.now(); }
\* run against the measured costs ds of the successive updateLines calls:
\* the time the loop ends, the times the calls started, whether the loop ended
\* within ds, and the costs not used
RECURSIVE UpdateLoop(_, _, _, _)
UpdateLoop(now, etime, ds, starts) ==
    IF ~LoopContinues(now, etime)
    THEN [now |-> now, starts |-> starts, ended |-> TRUE, left |-> ds]
    ELSE IF ds = <<>>
    THEN [now |-> now, starts |-> starts, ended |-> FALSE, left |-> ds]
    ELSE UpdateLoop(now + Head(ds), etime, Tail(ds), Append(starts, now))

\* the runs of measured updateLines costs the model follows in one tick
CallRuns == UNION {[1..n -> LineCosts] : n \in 1..MaxCalls}

(***************************************************************************)
(* History records                                                         *)
(***************************************************************************)
NoTick == [kind |-> STOP, t0 |-> 0, end |-> 0, starts |-> <<>>,
           lastCost |-> 0, rawsync |-> 0, target |-> Undef, overshoot |-> 0]
NoHist == [handed |-> 0, returned |-> 0, pushed |-> 0, put |-> 0, dropped |-> 0]

\* no call on the view yet
NoOp == [op |-> "none", view |-> Undef, frame |-> Undef, X |-> Undef,
         Y |-> Undef, points |-> {}, n |-> 0]

\* the per-frame history grown to the heap's length
GrowHist(h, heap) == [f \in 1..Len(heap) |-> IF f \in DOMAIN h THEN h[f] ELSE NoHist]

\* the frames in flight: posted to a worker and not yet handled on return
InFlight == {f \in 1..Len(fr) : \E w \in Workers :
                \/ \E k \in DOMAIN inbox[w] : inbox[w][k] = f
                \/ \E k \in DOMAIN outbox[w] : outbox[w][k] = f}

(***************************************************************************)
(* Construction                                                            *)
(***************************************************************************)
\* the scheduler's own fields after `new Zoomer(...)`
Constructed ==
    /\ state = STOP
    /\ frameNr = 0
    /\ disableWW \in BOOLEAN
    /\ dom = InitialDom
    /\ viewWidth = Snap(dom[1])
    /\ viewHeight = Snap(dom[2])
    /\ views = <<ZoomerView(Snap(dom[1]), Snap(dom[2]), Snap(dom[1]), Snap(dom[2])),
                 ZoomerView(Snap(dom[1]), Snap(dom[2]), Snap(dom[1]), Snap(dom[2]))>>
    /\ view0 = 1
    /\ view1 = 2
    /\ calcView = 1
    /\ dispView = 1
    /\ calcFrame = Undef
    /\ frames = <<>>
    /\ fr = <<>>
    /\ inbox = [w \in Workers |-> <<>>]
    /\ outbox = [w \in Workers |-> <<>>]
    /\ pending = 0
    /\ clock = 0
    /\ stateStart = [s \in States |-> 0]
    /\ avgStateDuration = [s \in States |-> 0]
    /\ frameRate = DefaultFrameRate * 1000
    /\ timeLastDrop = 0
    /\ timeLastWake = 0
    /\ cntDropped = 0
    /\ hops = <<STOP>>
    /\ written = {}
    /\ tick = NoTick
    /\ fh = <<>>
    /\ dropNow = 0
    /\ calls = 0

Init ==
    /\ Constructed
    /\ kview = Undef
    /\ cview = Undef
    /\ cframe = Undef
    /\ vop = NoOp

(***************************************************************************)
(* Calls from the application, and the environment                         *)
(***************************************************************************)
\* Zoomer.start()
Start ==
    /\ UNCHANGED viewVars
    /\ calls < MaxAppCalls
    /\ calls' = calls + 1
    /\ state = STOP
    /\ pending < MaxPending
    /\ state' = COPY
    /\ stateStart' = [stateStart EXCEPT ![COPY] = clock]
    /\ pending' = pending + 1
    /\ hops' = <<STOP, COPY>>
    /\ written' = {}
    /\ UNCHANGED <<frameNr, disableWW, dom, viewWidth, viewHeight, views, view0,
                   view1, calcView, dispView, calcFrame, frames, fr, inbox,
                   outbox, clock, avgStateDuration, frameRate, timeLastDrop,
                   timeLastWake, cntDropped, tick, fh, dropNow>>

\* Zoomer.stop()
Stop ==
    /\ UNCHANGED viewVars
    /\ calls < MaxAppCalls
    /\ calls' = calls + 1
    /\ state # STOP
    /\ avgStateDuration' = [avgStateDuration EXCEPT
            ![state] = LowPass(@, clock - stateStart[state])]
    /\ state' = STOP
    /\ hops' = <<state, STOP>>
    /\ written' = {}
    /\ UNCHANGED <<frameNr, disableWW, dom, viewWidth, viewHeight, views, view0,
                   view1, calcView, dispView, calcFrame, frames, fr, inbox,
                   outbox, pending, clock, stateStart, frameRate, timeLastDrop,
                   timeLastWake, cntDropped, tick, fh, dropNow>>

\* Zoomer.setPosition(centerX, centerY, radius, angle, keyView) called between
\* two events; `key` says whether a key view is given
SetPosition(moved, key) ==
    /\ UNCHANGED viewVars
    /\ calls < MaxAppCalls
    /\ calls' = calls + 1
    /\ timeLastWake' = IF moved /\ timeLastWake # 0 THEN clock
                       ELSE timeLastWake
    /\ IF key
       THEN LET a == allocFrame(frames, fr, viewWidth, viewHeight,
                                viewWidth, viewHeight, 0)
            IN  /\ Len(a.heap) <= MaxFrames
                /\ calcFrame' = a.id
                /\ frames' = a.pool
                /\ fr' = a.heap
                /\ fh' = GrowHist(fh, a.heap)
                /\ views' = BindView(views, calcView, a.id)
                /\ written' = {a.id}
       ELSE /\ written' = {}
            /\ UNCHANGED <<calcFrame, frames, fr, fh, views>>
    /\ UNCHANGED <<state, frameNr, disableWW, dom, viewWidth, viewHeight, view0,
                   view1, calcView, dispView, inbox, outbox, pending, clock,
                   stateStart, avgStateDuration, frameRate, timeLastDrop,
                   cntDropped, hops, tick, dropNow>>

\* the surface's parent element changes size
DomResize(size) ==
    /\ UNCHANGED viewVars
    /\ calls < MaxAppCalls
    /\ calls' = calls + 1
    /\ size # dom
    /\ Len(views) + 2 <= MaxViews
    /\ dom' = size
    /\ written' = {}
    /\ UNCHANGED <<state, frameNr, disableWW, viewWidth, viewHeight, views,
                   view0, view1, calcView, dispView, calcFrame, frames, fr,
                   inbox, outbox, pending, clock, stateStart, avgStateDuration,
                   frameRate, timeLastDrop, timeLastWake, cntDropped,
                   hops, tick, fh, dropNow>>

\* time passes
Elapse(d) ==
    /\ UNCHANGED viewVars
    /\ clock + d <= MaxTime
    /\ clock' = clock + d
    /\ written' = {}
    /\ UNCHANGED <<state, frameNr, disableWW, dom, viewWidth, viewHeight, views,
                   view0, view1, calcView, dispView, calcFrame, frames, fr,
                   inbox, outbox, pending, stateStart, avgStateDuration,
                   frameRate, timeLastDrop, timeLastWake, cntDropped,
                   hops, tick, fh, dropNow, calls>>


(***************************************************************************)
(* mainloop: one delivered "mainloop" self-message                         *)
(***************************************************************************)
\* COPY, "Test for DOM resize": the scheduler's fields after the resize block
\* (or unchanged, when the size is the same); `crash` when setPosition threw
ResizeStage(cost) ==
    LET w == Snap(dom[1])
        h == Snap(dom[2])
    IN  IF w = viewWidth /\ h = viewHeight
        THEN [resized |-> FALSE, crash |-> FALSE, viewWidth |-> viewWidth,
              viewHeight |-> viewHeight, views |-> views, view0 |-> view0,
              view1 |-> view1, calcView |-> calcView, dispView |-> dispView,
              calcFrame |-> calcFrame, pool |-> frames, heap |-> fr,
              now |-> clock, written |-> {}]
        ELSE LET vs == views \o <<ZoomerView(w, h, w, h), ZoomerView(w, h, w, h)>>
                 v0 == Len(views) + 1
                 v1 == Len(views) + 2
                 cv == ParityView(frameNr, v0, v1)
                 a == allocFrame(frames, fr, w, h, w, h, 0)
                 bound == BindView(vs, cv, a.id)
                 throws == SetPositionThrows(bound, cv, calcView)
             IN  [resized |-> TRUE, crash |-> throws, viewWidth |-> w,
                  viewHeight |-> h, views |-> bound, view0 |-> v0, view1 |-> v1,
                  calcView |-> cv, dispView |-> calcView, calcFrame |-> a.id,
                  pool |-> a.pool, heap |-> a.heap,
                  now |-> IF throws THEN clock ELSE clock + cost,
                  written |-> IF throws THEN {} ELSE {a.id}]

\* COPY, "allocate new frame" up to the state change, after the resize stage R
CopyStage(R, cost) ==
    LET nr == frameNr + 1
        dv == R.calcView
        previousFrame == R.views[dv].frame
        a == allocFrame(R.pool, R.heap, R.viewWidth, R.viewHeight,
                        R.viewWidth, R.viewHeight, 0)
        cv == ParityView(nr, R.view0, R.view1)
        bound == BindView(R.views, cv, a.id)
        throws == SetPositionThrows(bound, cv, dv)
    IN  IF previousFrame = Undef
        THEN [crash |-> TRUE, frameNr |-> nr, dispView |-> dv,
              previousFrame |-> Undef, calcFrame |-> R.calcFrame,
              calcView |-> R.calcView, views |-> R.views, pool |-> a.pool,
              heap |-> a.heap, now |-> R.now, written |-> R.written]
        ELSE [crash |-> throws, frameNr |-> nr, dispView |-> dv,
              previousFrame |-> previousFrame, calcFrame |-> a.id,
              calcView |-> cv, views |-> bound, pool |-> a.pool,
              heap |-> [a.heap EXCEPT ![previousFrame].timeExpire =
                                           R.now + 2 * Period(frameRate)],
              now |-> IF throws THEN R.now ELSE R.now + cost,
              written |-> IF throws THEN R.written ELSE R.written \cup {a.id}]

\* mainloop in state COPY, as far as the scheduler's own fields go.  cost: the
\* measured cost of a setPosition call;
\* moved: whether the onBeginFrame callback's Zoomer.setPosition call changes
\* the position.
\* A thrown TypeError ends the handler: what was assigned stays, and no
\* further "mainloop" message is posted.
CopyEffects(cost, moved) ==
    /\ pending > 0
    /\ state = COPY
    /\ LET R == ResizeStage(cost)
           M == CopyStage(R, cost)
           crashed == R.crash \/ M.crash
           next == CopyNextState(disableWW)
           w == WorkerOf(M.frameNr)
       IN  /\ Len(R.views) <= MaxViews
           /\ Len(IF R.crash THEN R.heap ELSE M.heap) <= MaxFrames
           /\ (IF crashed THEN R.now ELSE M.now) <= MaxTime
           /\ viewWidth' = R.viewWidth
           /\ viewHeight' = R.viewHeight
           /\ view0' = R.view0
           /\ view1' = R.view1
           /\ IF R.crash
              THEN /\ views' = R.views
                   /\ calcView' = R.calcView
                   /\ dispView' = R.dispView
                   /\ calcFrame' = R.calcFrame
                   /\ frames' = R.pool
                   /\ fr' = R.heap
                   /\ fh' = GrowHist(fh, R.heap)
                   /\ written' = R.written
                   /\ clock' = R.now
                   /\ UNCHANGED frameNr
              ELSE /\ views' = M.views
                   /\ calcView' = M.calcView
                   /\ dispView' = M.dispView
                   /\ calcFrame' = M.calcFrame
                   /\ frames' = M.pool
                   /\ fr' = M.heap
                   /\ written' = M.written
                   /\ clock' = M.now
                   /\ frameNr' = M.frameNr
                   /\ fh' = IF crashed \/ disableWW THEN GrowHist(fh, M.heap)
                            ELSE [GrowHist(fh, M.heap) EXCEPT
                                    ![M.previousFrame].handed = @ + 1]
           /\ IF crashed
              THEN /\ pending' = pending - 1
                   /\ hops' = <<COPY>>
                   /\ UNCHANGED <<state, stateStart, avgStateDuration, inbox,
                                  timeLastWake>>
              ELSE /\ pending' = pending
                   /\ timeLastWake' = IF moved /\ timeLastWake # 0
                                      THEN M.now ELSE timeLastWake
                   /\ inbox' = IF disableWW THEN inbox
                               ELSE [inbox EXCEPT ![w] = Append(@, M.previousFrame)]
                   /\ avgStateDuration' = [avgStateDuration EXCEPT
                          ![COPY] = LowPass(@, M.now - stateStart[COPY])]
                   /\ state' = next
                   /\ stateStart' = [stateStart EXCEPT
                          ![RENDER] = IF disableWW THEN @ ELSE M.now,
                          ![next] = M.now]
                   /\ hops' = <<COPY, next>>
           /\ tick' = [NoTick EXCEPT !.kind = COPY, !.t0 = clock,
                          !.end = IF crashed THEN R.now ELSE M.now]
    /\ UNCHANGED <<disableWW, dom, outbox, frameRate, timeLastDrop, cntDropped,
                   dropNow, calls>>

\* the COPY tick of a scheduler whose views and position are not followed
CopyTick(cost, moved) ==
    /\ UNCHANGED viewVars
    /\ CopyEffects(cost, moved)

\* a COPY tick, followed while the frame number is below MaxFrameNr
MainloopCopy(cost, moved) ==
    /\ frameNr < MaxFrameNr
    /\ CopyTick(cost, moved)

\* mainloop in state RENDER (inline mode), with PAINT appended to it.
\* measured: the measured duration of a render; paintCost: of onPutImageData.
MainloopRender(measured, paintCost) ==
    /\ UNCHANGED viewVars
    /\ pending > 0
    /\ state = RENDER
    /\ LET frame == views[dispView].frame
       IN  IF frame = Undef
           THEN \* zoomerRenderFrame(undefined) throws
                /\ pending' = pending - 1
                /\ hops' = <<RENDER>>
                /\ written' = {}
                /\ tick' = [NoTick EXCEPT !.kind = RENDER, !.t0 = clock,
                                          !.end = clock]
                /\ UNCHANGED <<state, views, frames, fr, clock, stateStart,
                               avgStateDuration, frameRate, timeLastDrop,
                               cntDropped, fh, dropNow>>
           ELSE LET rendered == zoomerRenderFrame(fr[frame], clock, measured)
                    now == clock + rendered.durationRENDER
                    next == RenderNextState(rendered.durationRENDER)
                    avg1 == [avgStateDuration EXCEPT
                                ![RENDER] = LowPass(@, now - stateStart[RENDER])]
                    start1 == [stateStart EXCEPT ![next] = now]
                    throttle == DropThrottle(frameRate, timeLastDrop, now)
                    now2 == now + paintCost
                IN  /\ fr' = [fr EXCEPT ![frame] = rendered]
                    /\ written' = {}
                    /\ pending' = pending
                    /\ IF next # PAINT
                       THEN /\ now <= MaxTime
                            /\ cntDropped' = cntDropped + 1
                            /\ frameRate' = throttle.frameRate
                            /\ timeLastDrop' = throttle.timeLastDrop
                            /\ dropNow' = now
                            /\ state' = next
                            /\ stateStart' = start1
                            /\ avgStateDuration' = avg1
                            /\ clock' = now
                            /\ hops' = <<RENDER, next>>
                            /\ fh' = [fh EXCEPT ![frame].handed = @ + 1,
                                                ![frame].returned = @ + 1,
                                                ![frame].dropped = @ + 1]
                            /\ tick' = [NoTick EXCEPT !.kind = RENDER,
                                            !.t0 = clock, !.end = now]
                            /\ UNCHANGED <<views, frames>>
                       ELSE /\ now2 <= MaxTime
                            /\ frames' = Append(frames, frame)
                            /\ views' = [views EXCEPT ![dispView].frame = Undef]
                            /\ avgStateDuration' = [avg1 EXCEPT
                                   ![PAINT] = LowPass(@, now2 - start1[PAINT])]
                            /\ state' = UPDATE
                            /\ stateStart' = [start1 EXCEPT ![UPDATE] = now2]
                            /\ clock' = now2
                            /\ hops' = <<RENDER, next, UPDATE>>
                            /\ fh' = [fh EXCEPT ![frame].handed = @ + 1,
                                                ![frame].returned = @ + 1,
                                                ![frame].put = @ + 1,
                                                ![frame].pushed = @ + 1]
                            /\ tick' = [NoTick EXCEPT !.kind = RENDER,
                                            !.t0 = clock, !.end = now2]
                            /\ UNCHANGED <<cntDropped, frameRate, timeLastDrop,
                                           dropNow>>
    /\ UNCHANGED <<frameNr, disableWW, dom, viewWidth, viewHeight, view0, view1,
                   calcView, dispView, calcFrame, inbox, outbox, timeLastWake,
                   calls>>

\* mainloop in state UPDATE.  ds: the measured costs of the updateLines calls.
\* The calls are made on the view of the frame number's parity and write the
\* pixels bound to it; `frame.durationUPDATE +=` throws after the loop when the
\* calc view has no frame.
MainloopUpdate(ds) ==
    /\ UNCHANGED viewVars
    /\ pending > 0
    /\ state = UPDATE
    /\ LET now == clock
           view == TickView(frameNr, view0, view1)
           frame == views[calcView].frame
           raw == NextSyncRaw(now, timeLastWake, stateStart[COPY], frameRate,
                              avgStateDuration, disableWW)
           nextsync == NextSync(raw, now, DefaultUpdateSlice)
           etime == SliceEnd(nextsync, now, DefaultUpdateSlice)
           loop == UpdateLoop(now, etime, ds, <<>>)
           pixels == views[view].pixels
       IN  /\ loop.ended
           /\ loop.left = <<>>
           /\ loop.now <= MaxTime
           /\ clock' = loop.now
           /\ written' = IF loop.starts = <<>> \/ pixels = Undef THEN {}
                         ELSE {pixels}
           /\ tick' = [kind |-> UPDATE, t0 |-> now, end |-> loop.now,
                       starts |-> loop.starts, lastCost |-> ds[Len(ds)],
                       rawsync |-> raw, target |-> pixels,
                       overshoot |-> IF frame # Undef
                                        /\ SyncReached(loop.now, nextsync)
                                     THEN Overshoot(loop.now, nextsync, now)
                                     ELSE 0]
           /\ IF frame = Undef
              THEN /\ pending' = pending - 1
                   /\ hops' = <<UPDATE>>
                   /\ UNCHANGED <<state, stateStart, avgStateDuration>>
              ELSE /\ pending' = pending
                   /\ IF SyncReached(loop.now, nextsync)
                      THEN /\ avgStateDuration' = [avgStateDuration EXCEPT
                                  ![UPDATE] = LowPass(@, loop.now - stateStart[UPDATE])]
                           /\ state' = COPY
                           /\ stateStart' = [stateStart EXCEPT ![COPY] = loop.now]
                           /\ hops' = <<UPDATE, COPY>>
                      ELSE /\ hops' = <<UPDATE>>
                           /\ UNCHANGED <<state, stateStart, avgStateDuration>>
    /\ UNCHANGED <<frameNr, disableWW, dom, viewWidth, viewHeight, views, view0,
                   view1, calcView, dispView, calcFrame, frames, fr, inbox,
                   outbox, frameRate, timeLastDrop, timeLastWake, cntDropped,
                   fh, dropNow, calls>>

\* mainloop in state STOP ("return and don't call again"), or in a state it
\* does not handle ("shouldn't reach here": this.stop())
MainloopOther ==
    /\ UNCHANGED viewVars
    /\ pending > 0
    /\ state \in {STOP, PAINT}
    /\ pending' = pending - 1
    /\ written' = {}
    /\ IF ~MainloopRuns(state)
       THEN /\ hops' = <<STOP>>
            /\ UNCHANGED <<state, avgStateDuration>>
       ELSE /\ avgStateDuration' = [avgStateDuration EXCEPT
                   ![state] = LowPass(@, clock - stateStart[state])]
            /\ state' = STOP
            /\ hops' = <<state, STOP>>
    /\ UNCHANGED <<frameNr, disableWW, dom, viewWidth, viewHeight, views, view0,
                   view1, calcView, dispView, calcFrame, frames, fr, inbox,
                   outbox, clock, stateStart, frameRate, timeLastDrop,
                   timeLastWake, cntDropped, tick, fh, dropNow, calls>>

(***************************************************************************)
(* Render workers                                                          *)
(***************************************************************************)
\* the worker's message listener: render the frame and post it back
WorkerOnMessage(w, measured) ==
    /\ UNCHANGED viewVars
    /\ inbox[w] # <<>>
    /\ LET frame == Head(inbox[w])
       IN  /\ fr' = [fr EXCEPT ![frame] = zoomerRenderFrame(@, clock, measured)]
           /\ inbox' = [inbox EXCEPT ![w] = Tail(@)]
           /\ outbox' = [outbox EXCEPT ![w] = Append(@, frame)]
    /\ written' = {}
    /\ UNCHANGED <<state, frameNr, disableWW, dom, viewWidth, viewHeight, views,
                   view0, view1, calcView, dispView, calcFrame, frames, pending,
                   clock, stateStart, avgStateDuration, frameRate, timeLastDrop,
                   timeLastWake, cntDropped, hops, tick, fh, dropNow, calls>>

\* the main context's listener for a frame a worker posted back
WorkerReturn(w, paintCost) ==
    /\ UNCHANGED viewVars
    /\ outbox[w] # <<>>
    /\ LET frame == Head(outbox[w])
           now == clock
           dropped == IsDropped(fr[frame].durationRENDER)
           throttle == DropThrottle(frameRate, timeLastDrop, now)
           now2 == IF dropped THEN now ELSE now + paintCost
           avg1 == IF dropped THEN avgStateDuration
                   ELSE [avgStateDuration EXCEPT
                            ![RENDER] = LowPass(@, fr[frame].durationRENDER)]
           start1 == IF dropped THEN stateStart
                     ELSE [stateStart EXCEPT ![PAINT] = now]
       IN  /\ now2 <= MaxTime
           /\ outbox' = [outbox EXCEPT ![w] = Tail(@)]
           /\ cntDropped' = IF dropped THEN cntDropped + 1 ELSE cntDropped
           /\ frameRate' = IF dropped THEN throttle.frameRate ELSE frameRate
           /\ timeLastDrop' = IF dropped THEN throttle.timeLastDrop ELSE timeLastDrop
           /\ dropNow' = IF dropped THEN now ELSE dropNow
           /\ stateStart' = start1
           /\ frames' = Append(frames, frame)
           /\ avgStateDuration' = [avg1 EXCEPT
                  ![PAINT] = LowPass(@, now2 - start1[PAINT])]
           /\ clock' = now2
           /\ fh' = [fh EXCEPT ![frame].returned = @ + 1,
                               ![frame].pushed = @ + 1,
                               ![frame].put = IF dropped THEN @ ELSE @ + 1,
                               ![frame].dropped = IF dropped THEN @ + 1 ELSE @]
    /\ written' = {}
    /\ UNCHANGED <<state, frameNr, disableWW, dom, viewWidth, viewHeight, views,
                   view0, view1, calcView, dispView, calcFrame, fr, inbox,
                   pending, timeLastWake, hops, tick, calls>>

(***************************************************************************)
(* Specification                                                           *)
(***************************************************************************)
Next ==
    \/ Start
    \/ Stop
    \/ \E moved \in BOOLEAN, key \in BOOLEAN : SetPosition(moved, key)
    \/ \E size \in DomSizes : DomResize(size)
    \/ \E d \in ElapseSteps : Elapse(d)
    \/ \E cost \in CopyCosts, moved \in BOOLEAN : MainloopCopy(cost, moved)
    \/ \E measured \in RenderCosts, paintCost \in PaintCosts :
            MainloopRender(measured, paintCost)
    \/ \E ds \in CallRuns : MainloopUpdate(ds)
    \/ MainloopOther
    \/ \E w \in Workers, measured \in RenderCosts : WorkerOnMessage(w, measured)
    \/ \E w \in Workers, paintCost \in PaintCosts : WorkerReturn(w, paintCost)

Spec == Init /\ [][Next]_vars

(***************************************************************************)
(* The scheduler with workers enabled, on a surface that keeps its size,   *)
(* started once and given key frames; followed up to frame number          *)
(* MaxPipelineFrameNr.                                                     *)
(***************************************************************************)
InitPipeline == Init /\ ~disableWW

\* a COPY tick, followed while the frame number is below MaxPipelineFrameNr
PipelineCopy(cost) ==
    /\ frameNr < MaxPipelineFrameNr
    /\ CopyTick(cost, FALSE)

NextPipeline ==
    \/ Start
    \/ SetPosition(FALSE, TRUE)
    \/ \E d \in ElapseSteps : Elapse(d)
    \/ \E cost \in CopyCosts : PipelineCopy(cost)
    \/ \E ds \in CallRuns : MainloopUpdate(ds)
    \/ \E w \in Workers, measured \in RenderCosts : WorkerOnMessage(w, measured)
    \/ \E w \in Workers, paintCost \in PaintCosts : WorkerReturn(w, paintCost)

SpecPipeline == InitPipeline /\ [][NextPipeline]_vars

(***************************************************************************)
(* The Renderer on its own: one zoomerRenderFrame call on one frame.       *)
(* fr[1] is the frame as the call finds it, fr[2] the frame as it leaves   *)
(* it; clock is Date.now() on entry.                                       *)
(***************************************************************************)
\* <<viewWidth, viewHeight, pixelWidth, pixelHeight>> of the frames rendered
RenderDims == {<<2, 2, 2, 2>>, <<2, 2, 4, 2>>, <<2, 2, 2, 4>>}
\* the values a pixel takes
PixelCodes == {0, 1}
\* the palettes: none, or a Uint32Array of two colours
Palettes == {NoPalette, <<7, 8>>}
\* frame.timeExpire
ExpireTimes == {0, 10}
\* Date.now() on entry
EntryTimes == {5, 10, 15}

\* the frames the call finds: rgba holds 9 everywhere, left from an earlier use
RenderInputs ==
    UNION {{[ZoomerFrame(d[1], d[2], d[3], d[4]) EXCEPT
                !.rgba = [k \in 1..(d[1] * d[2]) |-> 9],
                !.pixels = px, !.palette = pal, !.timeExpire = te] :
              px \in [1..(d[3] * d[4]) -> PixelCodes],
              pal \in Palettes, te \in ExpireTimes} : d \in RenderDims}

InitRender ==
    /\ state = STOP
    /\ frameNr = 0
    /\ disableWW = TRUE
    /\ dom = InitialDom
    /\ viewWidth = Snap(dom[1])
    /\ viewHeight = Snap(dom[2])
    /\ views = <<>>
    /\ view0 = Undef
    /\ view1 = Undef
    /\ calcView = Undef
    /\ dispView = Undef
    /\ calcFrame = Undef
    /\ frames = <<>>
    /\ \E f \in RenderInputs : fr = <<f>>
    /\ inbox = [w \in Workers |-> <<>>]
    /\ outbox = [w \in Workers |-> <<>>]
    /\ pending = 0
    /\ clock \in EntryTimes
    /\ stateStart = [s \in States |-> 0]
    /\ avgStateDuration = [s \in States |-> 0]
    /\ frameRate = DefaultFrameRate * 1000
    /\ timeLastDrop = 0
    /\ timeLastWake = 0
    /\ cntDropped = 0
    /\ hops = <<STOP>>
    /\ written = {}
    /\ tick = NoTick
    /\ fh = <<>>
    /\ dropNow = 0
    /\ calls = 0
    /\ kview = Undef
    /\ cview = Undef
    /\ cframe = Undef
    /\ vop = NoOp

\* zoomerRenderFrame(frame), taking `measured` ms by performance.now()
RenderCall(measured) ==
    /\ UNCHANGED viewVars
    /\ Len(fr) = 1
    /\ fr' = Append(fr, zoomerRenderFrame(fr[1], clock, measured))
    /\ UNCHANGED <<state, frameNr, disableWW, dom, viewWidth, viewHeight, views,
                   view0, view1, calcView, dispView, calcFrame, frames, inbox,
                   outbox, pending, clock, stateStart, avgStateDuration,
                   frameRate, timeLastDrop, timeLastWake, cntDropped, hops,
                   written, tick, fh, dropNow, calls>>

NextRender == \E measured \in RenderCosts : RenderCall(measured)

SpecRender == InitRender /\ [][NextRender]_vars

(***************************************************************************)
(* The scheduler with workers and an application that marks the view as    *)
(* safe to idle: the wake timestamp is set once while the scheduler runs,  *)
(* time passes in steps of IdleSteps during UPDATE and every updateLines   *)
(* call takes one of IdleLineCosts.                                        *)
(***************************************************************************)
\* the time that passes between two events
IdleSteps == {600}
\* the measured cost of the one updateLines call of an UPDATE tick
IdleLineCosts == {120}

InitIdle == Init /\ ~disableWW

\* the application's zoomer.timeLastWake = performance.now(), "safe to idle"
SetWake ==
    /\ UNCHANGED viewVars
    /\ calls < MaxAppCalls
    /\ calls' = calls + 1
    /\ state # STOP
    /\ timeLastWake = 0
    /\ timeLastWake' = clock
    /\ written' = {}
    /\ UNCHANGED <<state, frameNr, disableWW, dom, viewWidth, viewHeight, views,
                   view0, view1, calcView, dispView, calcFrame, frames, fr,
                   inbox, outbox, pending, clock, stateStart, avgStateDuration,
                   frameRate, timeLastDrop, cntDropped, hops, tick, fh,
                   dropNow>>

\* time passes while the scheduler is in UPDATE and the view is safe to idle
IdleElapse(d) ==
    /\ timeLastWake # 0
    /\ state = UPDATE
    /\ Elapse(d)

\* a COPY tick, followed while the frame number is below MaxIdleFrameNr
IdleCopy(cost) ==
    /\ frameNr < MaxIdleFrameNr
    /\ CopyTick(cost, FALSE)

NextIdle ==
    \/ Start
    \/ SetPosition(FALSE, TRUE)
    \/ SetWake
    \/ \E d \in IdleSteps : IdleElapse(d)
    \/ \E cost \in CopyCosts : IdleCopy(cost)
    \/ \E cost \in IdleLineCosts : MainloopUpdate(<<cost>>)
    \/ \E w \in Workers, measured \in RenderCosts : WorkerOnMessage(w, measured)
    \/ \E w \in Workers, paintCost \in PaintCosts : WorkerReturn(w, paintCost)

SpecIdle == InitIdle /\ [][NextIdle]_vars

(***************************************************************************)
(* One ZoomerView on its own: setPosition against a previous view, then    *)
(* updateLines calls.  The frame is the one allocFrame hands out before    *)
(* every setPosition call: its counters are 0.                             *)
(***************************************************************************)
\* the ruler lengths (pixelWidth, pixelHeight) of the views
ViewDims == {2, 3}
\* the coordinates the previous view's stops were calculated at
OldStops == {0, 3, 6, 9}
\* the centers (centerX = centerY) and the radii of the new position; with
\* these and ViewDims every division of setPosition and makeRuler is exact
Centers == {5, 6}
Radii == {0, 6}

\* the rulers of n stops whose nearest coordinates do not decrease
MonotoneRulers(n) ==
    {r \in [1..n -> OldStops] : \A k \in 1..(n - 1) : r[k] <= r[k + 1]}

\* the pixel buffers of a previous frame of n pixels: every pixel another
\* code, or one code everywhere
OldPixels(n) == {[k \in 1..n |-> k], [k \in 1..n |-> 7]}

\* what previousView is read for: xNearest, yNearest, pixelWidth, pixelHeight
\* and pixels
PreviousViews ==
    UNION {{[pixelWidth |-> w, pixelHeight |-> h, xNearest |-> xn,
             yNearest |-> yn, pixels |-> px] :
               xn \in MonotoneRulers(w), yn \in MonotoneRulers(h),
               px \in OldPixels(w * h)} : w \in ViewDims, h \in ViewDims}

InitView ==
    /\ state = STOP
    /\ frameNr = 0
    /\ disableWW = TRUE
    /\ dom = InitialDom
    /\ viewWidth = Snap(dom[1])
    /\ viewHeight = Snap(dom[2])
    /\ views = <<>>
    /\ view0 = Undef
    /\ view1 = Undef
    /\ calcView = Undef
    /\ dispView = Undef
    /\ calcFrame = Undef
    /\ frames = <<>>
    /\ fr = <<>>
    /\ inbox = [w \in Workers |-> <<>>]
    /\ outbox = [w \in Workers |-> <<>>]
    /\ pending = 0
    /\ clock = 0
    /\ stateStart = [s \in States |-> 0]
    /\ avgStateDuration = [s \in States |-> 0]
    /\ frameRate = DefaultFrameRate * 1000
    /\ timeLastDrop = 0
    /\ timeLastWake = 0
    /\ cntDropped = 0
    /\ hops = <<STOP>>
    /\ written = {}
    /\ tick = NoTick
    /\ fh = <<>>
    /\ dropNow = 0
    /\ calls = 0
    /\ kview \in PreviousViews
    /\ \E w \in ViewDims, h \in ViewDims :
            /\ cview = RuledView(w, h, w, h)
            /\ cframe = ZoomerFrame(w, h, w, h)
    /\ vop = NoOp

\* cview.setPosition(cframe, center, center, radius, kview)
ViewSetPosition(center, radius) ==
    /\ vop.op = "none"
    /\ LET r == setPosition(cview, cframe, center, center, radius, kview)
       IN  /\ cview' = r.view
           /\ cframe' = r.frame
           /\ vop' = [op |-> "setPosition", view |-> cview, frame |-> cframe,
                      X |-> r.X, Y |-> r.Y, points |-> {}, n |-> 0]
    /\ UNCHANGED <<state, frameNr, disableWW, dom, viewWidth, viewHeight, views,
                   view0, view1, calcView, dispView, calcFrame, frames, fr,
                   inbox, outbox, pending, clock, stateStart, avgStateDuration,
                   frameRate, timeLastDrop, timeLastWake, cntDropped, hops,
                   written, tick, fh, dropNow, calls, kview>>

\* cview.updateLines(zoomer)
ViewUpdateLines ==
    /\ vop.op # "none"
    /\ vop.n < MaxLineCalls
    /\ LET r == updateLines(cview, cframe)
       IN  /\ cview' = r.view
           /\ cframe' = r.frame
           /\ vop' = [op |-> "updateLines", view |-> cview, frame |-> cframe,
                      X |-> vop.X, Y |-> vop.Y, points |-> r.points,
                      n |-> vop.n + 1]
    /\ UNCHANGED <<state, frameNr, disableWW, dom, viewWidth, viewHeight, views,
                   view0, view1, calcView, dispView, calcFrame, frames, fr,
                   inbox, outbox, pending, clock, stateStart, avgStateDuration,
                   frameRate, timeLastDrop, timeLastWake, cntDropped, hops,
                   written, tick, fh, dropNow, calls, kview>>

NextView ==
    \/ \E center \in Centers, radius \in Radii : ViewSetPosition(center, radius)
    \/ ViewUpdateLines

SpecView == InitView /\ [][NextView]_vars

(***************************************************************************)
(* The parts of the program taken one at a time.  The scheduler is as      *)
(* constructed and is not started; the variables of the view hold the      *)
(* arguments and the outcome of the call.                                  *)
(***************************************************************************)
\* the variables of the scheduler
schedVars == <<state, frameNr, disableWW, dom, viewWidth, viewHeight, views,
               view0, view1, calcView, dispView, calcFrame, frames, fr, inbox,
               outbox, pending, clock, stateStart, avgStateDuration, frameRate,
               timeLastDrop, timeLastWake, cntDropped, hops, written, tick, fh,
               dropNow, calls>>

\* the scheduler after construction, its dimensions apart: stopped, no view,
\* no frame, no message
Idle ==
    /\ state = STOP
    /\ frameNr = 0
    /\ disableWW = TRUE
    /\ views = <<>>
    /\ view0 = Undef
    /\ view1 = Undef
    /\ calcView = Undef
    /\ dispView = Undef
    /\ calcFrame = Undef
    /\ frames = <<>>
    /\ fr = <<>>
    /\ inbox = [w \in Workers |-> <<>>]
    /\ outbox = [w \in Workers |-> <<>>]
    /\ pending = 0
    /\ clock = 0
    /\ stateStart = [s \in States |-> 0]
    /\ avgStateDuration = [s \in States |-> 0]
    /\ frameRate = DefaultFrameRate * 1000
    /\ timeLastDrop = 0
    /\ timeLastWake = 0
    /\ cntDropped = 0
    /\ hops = <<STOP>>
    /\ written = {}
    /\ tick = NoTick
    /\ fh = <<>>
    /\ dropNow = 0
    /\ calls = 0

\* the scheduler after construction in a parent element of the initial size
Unstarted ==
    /\ dom = InitialDom
    /\ viewWidth = Snap(dom[1])
    /\ viewHeight = Snap(dom[2])
    /\ Idle

(***************************************************************************)
(* makeRuler on its own: one call with new arrays of n stops and a source  *)
(* ruler of any length, the empty one included.                            *)
(***************************************************************************)
\* newCoord.length
RulerLengths == {2, 3}
\* start and end; with RulerLengths every division of makeRuler is exact
RulerRanges == {<<0, 6>>, <<3, 9>>, <<6, 6>>, <<0, 12>>}
\* oldNearest: the rulers of up to MaxSourceStops stops that do not decrease
SourceRulers == UNION {MonotoneRulers(m) : m \in 0..MaxSourceStops}

InitRuler ==
    /\ Unstarted
    /\ \E range \in RulerRanges, n \in RulerLengths, old \in SourceRulers :
            kview = [start |-> range[1], end |-> range[2], n |-> n,
                     oldNearest |-> old]
    /\ cview = Undef
    /\ cframe = Undef
    /\ vop = NoOp

\* makeRuler(start, end, newCoord, newNearest, newError, newFrom, oldNearest)
RulerCall ==
    /\ vop.op = "none"
    /\ vop' = [op |-> "makeRuler",
               R |-> makeRuler(kview.start, kview.end, kview.n,
                               kview.oldNearest)]
    /\ UNCHANGED <<schedVars, kview, cview, cframe>>

NextRuler == RulerCall

SpecRuler == InitRuler /\ [][NextRuler]_vars

(***************************************************************************)
(* A new ZoomerView: setPosition without a previous view, and              *)
(* reachedLimits before or after it.                                       *)
(***************************************************************************)
\* the view dimensions of the new view
FirstDims == {1, 2, 3}
\* the radii of the first position; with these and FirstDims every division
\* of the linear fill is exact
FirstRadii == {0, 6}
\* the global i of the page: none, or one holding an index
GlobalScopes == {{}, {0}, {1}}

InitFirst ==
    /\ Unstarted
    /\ kview = Undef
    /\ \E w \in FirstDims, h \in FirstDims, given \in BOOLEAN :
            /\ cview = IF given THEN NewView(w, h, w, h)
                       ELSE NewView(w, h, Undef, Undef)
            /\ cframe = ZoomerFrame(w, h, w, h)
    /\ vop = NoOp

\* cview.setPosition(cframe, center, center, radius)
FirstSetPosition(center, radius, globals) ==
    /\ vop.op = "none"
    /\ LET r == firstSetPosition(cview, center, center, radius, globals)
       IN  /\ cview' = r.view
           /\ vop' = [op |-> "setPosition", view |-> cview, frame |-> cframe,
                      center |-> center, radius |-> radius,
                      throws |-> r.throws]
    /\ UNCHANGED <<schedVars, kview, cframe>>

\* cview.reachedLimits()
ReachedLimits ==
    /\ vop.op # "reachedLimits"
    /\ vop' = [op |-> "reachedLimits", result |-> reachedLimits(cview)]
    /\ UNCHANGED <<schedVars, kview, cview, cframe>>

NextFirst ==
    \/ \E center \in Centers, radius \in FirstRadii, globals \in GlobalScopes :
            FirstSetPosition(center, radius, globals)
    \/ ReachedLimits

SpecFirst == InitFirst /\ [][NextFirst]_vars

(***************************************************************************)
(* The dimensions of the scheduler on their own, with and without          *)
(* rotation: the constructor's assignments, and those of the COPY tick     *)
(* that finds the parent element resized.  vop holds enableAngle and the   *)
(* storage dimensions.                                                     *)
(***************************************************************************)
\* clientWidth and clientHeight of the parent element
ClientSizes == (0..MaxClient) \X (0..MaxClient)

\* viewWidth, viewHeight, pixelWidth and pixelHeight as the constructor and
\* the resize assign them
Dimensions(enableAngle, size) ==
    [op |-> "dims", enableAngle |-> enableAngle,
     pixelWidth |-> PixelWidthFor(enableAngle, Snap(size[1]), Snap(size[2])),
     pixelHeight |-> PixelHeightFor(enableAngle, Snap(size[1]), Snap(size[2])),
     resized |-> FALSE]

InitDims ==
    /\ Idle
    /\ dom \in ClientSizes
    /\ viewWidth = Snap(dom[1])
    /\ viewHeight = Snap(dom[2])
    /\ kview = Undef
    /\ cview = Undef
    /\ cframe = Undef
    /\ \E enableAngle \in BOOLEAN : vop = Dimensions(enableAngle, dom)

\* the parent element takes another size
DimsDomResize(size) ==
    /\ size # dom
    /\ dom' = size
    /\ UNCHANGED <<state, frameNr, disableWW, viewWidth, viewHeight, views,
                   view0, view1, calcView, dispView, calcFrame, frames, fr,
                   inbox, outbox, pending, clock, stateStart, avgStateDuration,
                   frameRate, timeLastDrop, timeLastWake, cntDropped, hops,
                   written, tick, fh, dropNow, calls, kview, cview, cframe,
                   vop>>

\* "Test for DOM resize" and "snap to even sizes"
DimsResize ==
    /\ Snap(dom[1]) # viewWidth \/ Snap(dom[2]) # viewHeight
    /\ viewWidth' = Snap(dom[1])
    /\ viewHeight' = Snap(dom[2])
    /\ vop' = [Dimensions(vop.enableAngle, dom) EXCEPT !.resized = TRUE]
    /\ UNCHANGED <<state, frameNr, disableWW, dom, views, view0, view1,
                   calcView, dispView, calcFrame, frames, fr, inbox, outbox,
                   pending, clock, stateStart, avgStateDuration, frameRate,
                   timeLastDrop, timeLastWake, cntDropped, hops, written, tick,
                   fh, dropNow, calls, kview, cview, cframe>>

NextDims ==
    \/ \E size \in ClientSizes : DimsDomResize(size)
    \/ DimsResize

SpecDims == InitDims /\ [][NextDims]_vars

(***************************************************************************)
(* The frame pool on its own: allocFrame calls, use of the frames handed   *)
(* out and their release to the pool, in any order.  vop.log lists the     *)
(* allocFrame calls and the releases in the order they were made.          *)
(***************************************************************************)
\* the dimensions asked for: <<viewWidth, viewHeight, pixelWidth, pixelHeight>>
PoolDims == {<<2, 2, 2, 2>>, <<2, 2, 4, 2>>}
\* the angle asked for; a new ZoomerFrame has angle 0
PoolAngles == {90}

\* no call on the pool yet
NoLog == [op |-> "pool", log |-> <<>>]

\* the frames handed out by allocFrame and not released since
Held ==
    {f \in 1..Len(fr) :
        LET events == {k \in DOMAIN vop.log : vop.log[k].id = f}
        IN  /\ events # {}
            /\ vop.log[CHOOSE k \in events : \A l \in events : l <= k].op
                    = "alloc"}

\* variant: a released frame goes to the front of the pool
ReleasedFirst(pool, frame) == <<frame>> \o pool

\* this.frames.push(frame)
Released(pool, frame) == Append(pool, frame)

InitPool ==
    /\ Unstarted
    /\ kview = Undef
    /\ cview = Undef
    /\ cframe = Undef
    /\ vop = NoLog

\* allocFrame(d[1], d[2], d[3], d[4], angle); met are the pooled frames it
\* shifts off before the one it returns
PoolAlloc(d, angle) ==
    /\ Len(vop.log) < MaxPoolOps
    /\ LET r == allocFrame(frames, fr, d[1], d[2], d[3], d[4], angle)
           rest == ShiftMismatched(frames, fr, d[1], d[2], d[3], d[4])
       IN  /\ frames' = r.pool
           /\ fr' = r.heap
           /\ vop' = [vop EXCEPT !.log = Append(@,
                        [op |-> "alloc", id |-> r.id, dims |-> d,
                         angle |-> angle,
                         met |-> {frames[k] :
                                    k \in 1..(Len(frames) - Len(rest))}])]
    /\ UNCHANGED <<state, frameNr, disableWW, dom, viewWidth, viewHeight, views,
                   view0, view1, calcView, dispView, calcFrame, inbox, outbox,
                   pending, clock, stateStart, avgStateDuration, frameRate,
                   timeLastDrop, timeLastWake, cntDropped, hops, written, tick,
                   fh, dropNow, calls, kview, cview, cframe>>

\* a frame in use gathers statistics: points and lines calculated, and the
\* duration of its render
PoolUse(f) ==
    /\ f \in Held
    /\ fr[f].cntPixels = 0
    /\ fr' = [fr EXCEPT ![f].cntPixels = fr[f].pixelWidth * fr[f].pixelHeight,
                        ![f].cntHLines = fr[f].pixelHeight,
                        ![f].cntVLines = fr[f].pixelWidth,
                        ![f].durationRENDER =
                            CHOOSE c \in RenderCosts : c > 0]
    /\ UNCHANGED <<state, frameNr, disableWW, dom, viewWidth, viewHeight, views,
                   view0, view1, calcView, dispView, calcFrame, frames, inbox,
                   outbox, pending, clock, stateStart, avgStateDuration,
                   frameRate, timeLastDrop, timeLastWake, cntDropped, hops,
                   written, tick, fh, dropNow, calls, kview, cview, cframe,
                   vop>>

\* this.frames.push(frame) of a frame that was handed out
PoolRelease(f) ==
    /\ Len(vop.log) < MaxPoolOps
    /\ f \in Held
    /\ frames' = Released(frames, f)
    /\ vop' = [vop EXCEPT !.log = Append(@,
                 [op |-> "release", id |-> f, dims |-> <<>>, angle |-> 0,
                  met |-> {}])]
    /\ UNCHANGED <<state, frameNr, disableWW, dom, viewWidth, viewHeight, views,
                   view0, view1, calcView, dispView, calcFrame, fr, inbox,
                   outbox, pending, clock, stateStart, avgStateDuration,
                   frameRate, timeLastDrop, timeLastWake, cntDropped, hops,
                   written, tick, fh, dropNow, calls, kview, cview, cframe>>

NextPool ==
    \/ \E d \in PoolDims, angle \in PoolAngles : PoolAlloc(d, angle)
    \/ \E f \in 1..Len(fr) : PoolUse(f)
    \/ \E f \in 1..Len(fr) : PoolRelease(f)

SpecPool == InitPool /\ [][NextPool]_vars

(***************************************************************************)
(* The COPY tick statement by statement, after its resize test.  kview is  *)
(* Zoomer.centerX, cview[v] the centerX view v was last positioned at, and *)
(* vop.log lists what the tick did, in the order it did it.  Between two   *)
(* COPY ticks the rest of the frame is one step.                           *)
(***************************************************************************)
\* the positions the application chooses from
CopyPositions == {0, 1}

\* no COPY tick yet
NoSteps == [op |-> "none", log |-> <<>>, crash |-> FALSE]

\* variant: the callback runs before the calculating view is positioned
CopyStatementsBeginFirst ==
    <<"swap", "allocFrame", "timeExpire", "onBeginFrame", "setPosition",
      "onRenderFrame", "postMessage">>

\* the statements of the COPY tick from "allocate new frame" to the transfer
\* to the worker, in the order of the source
CopyStatements ==
    <<"swap", "allocFrame", "timeExpire", "setPosition", "onBeginFrame",
      "onRenderFrame", "postMessage">>

\* the fields and locals of mainloop when the COPY tick reaches
\* "allocate new frame"
CopyEntry ==
    [frameNr |-> frameNr, calcView |-> calcView, dispView |-> dispView,
     calcFrame |-> calcFrame, views |-> views, frames |-> frames, fr |-> fr,
     inbox |-> inbox, center |-> kview, centers |-> cview, now |-> clock,
     previousFrame |-> Undef, frame |-> Undef, log |-> <<>>, crash |-> FALSE]

\* one entry of vop.log
CopyLogged(E, step, frame, value) ==
    Append(E.log, [step |-> step, frame |-> frame, value |-> value,
                   at |-> E.now])

\* one statement s of the COPY tick, run on the fields and locals E.  position
\* is the position the onBeginFrame callback sets, cost the measured cost of
\* View.setPosition.
CopyStatement(E, s, position, cost) ==
    CASE s = "swap" ->
            [E EXCEPT !.frameNr = @ + 1,
                      !.dispView = E.calcView,
                      !.previousFrame = E.views[E.calcView].frame]
      [] s = "allocFrame" ->
            LET a == allocFrame(E.frames, E.fr, viewWidth, viewHeight,
                                viewWidth, viewHeight, 0)
            IN  [E EXCEPT !.frame = a.id, !.frames = a.pool, !.fr = a.heap,
                          !.log = CopyLogged(E, "onInitFrame", a.id, 0)]
      [] s = "timeExpire" ->
            IF E.previousFrame = Undef
            THEN [E EXCEPT !.crash = TRUE]
            ELSE LET expire == E.now + 2 * Period(frameRate)
                 IN  [E EXCEPT !.fr[E.previousFrame].timeExpire = expire,
                               !.log = CopyLogged(E, "timeExpire",
                                                  E.previousFrame, expire)]
      [] s = "setPosition" ->
            LET cv == ParityView(E.frameNr, view0, view1)
                bound == BindView(E.views, cv, E.frame)
            IN  IF SetPositionThrows(bound, cv, E.dispView)
                THEN [E EXCEPT !.calcFrame = E.frame, !.calcView = cv,
                               !.views = bound, !.crash = TRUE]
                ELSE [E EXCEPT !.calcFrame = E.frame, !.calcView = cv,
                               !.views = bound,
                               !.centers[cv] = E.center,
                               !.now = @ + cost,
                               !.log = CopyLogged(E, "setPosition", E.frame,
                                                  E.center)]
      [] s = "onBeginFrame" ->
            [E EXCEPT !.center = position,
                      !.log = CopyLogged(E, "onBeginFrame", E.frame, position)]
      [] s = "onRenderFrame" ->
            IF disableWW THEN E
            ELSE [E EXCEPT !.log = CopyLogged(E, "onRenderFrame",
                                              E.previousFrame,
                                              E.fr[E.previousFrame].timeExpire)]
      [] s = "postMessage" ->
            IF disableWW THEN E
            ELSE [E EXCEPT !.inbox[WorkerOf(E.frameNr)] =
                                Append(@, E.previousFrame),
                           !.log = CopyLogged(E, "postMessage",
                                              E.previousFrame,
                                              E.fr[E.previousFrame].timeExpire)]

\* the statements from the k-th on, run in order; a thrown TypeError ends the
\* handler
RECURSIVE CopyRun(_, _, _, _, _)
CopyRun(E, statements, k, position, cost) ==
    IF k > Len(statements) \/ E.crash THEN E
    ELSE CopyRun(CopyStatement(E, statements[k], position, cost), statements,
                 k + 1, position, cost)

\* the scheduler after construction, workers enabled or not; the position of
\* the scheduler and of both views is 0
InitCopy ==
    /\ Constructed
    /\ kview = 0
    /\ cview = <<0, 0>>
    /\ cframe = Undef
    /\ vop = NoSteps

\* Zoomer.setPosition(position, ..., keyView) called between two events; `key`
\* says whether a key view is given
CopySetPosition(position, key) ==
    /\ calls < MaxAppCalls
    /\ calls' = calls + 1
    /\ kview' = position
    /\ IF key
       THEN LET a == allocFrame(frames, fr, viewWidth, viewHeight,
                                viewWidth, viewHeight, 0)
            IN  /\ Len(a.heap) <= MaxFrames
                /\ calcFrame' = a.id
                /\ frames' = a.pool
                /\ fr' = a.heap
                /\ fh' = GrowHist(fh, a.heap)
                /\ views' = BindView(views, calcView, a.id)
                /\ cview' = [cview EXCEPT ![calcView] = position]
                /\ written' = {a.id}
       ELSE /\ written' = {}
            /\ UNCHANGED <<calcFrame, frames, fr, fh, views, cview>>
    /\ UNCHANGED <<state, frameNr, disableWW, dom, viewWidth, viewHeight, view0,
                   view1, calcView, dispView, inbox, outbox, pending, clock,
                   stateStart, avgStateDuration, frameRate, timeLastDrop,
                   timeLastWake, cntDropped, hops, tick, dropNow, cframe, vop>>

\* mainloop in state COPY on a surface that kept its size; position is the
\* position the onBeginFrame callback sets
CopyOrdered(position, cost) ==
    /\ frameNr < MaxCopyFrameNr
    /\ CopyEffects(cost, position # kview)
    /\ LET E == CopyRun(CopyEntry, CopyStatements, 1, position, cost)
       IN  /\ kview' = E.center
           /\ cview' = E.centers
           /\ vop' = [op |-> "COPY", log |-> E.log, crash |-> E.crash]
    /\ UNCHANGED cframe

NextCopy ==
    \/ Start
    \/ \E position \in CopyPositions, key \in BOOLEAN :
            CopySetPosition(position, key)
    \/ \E position \in CopyPositions, cost \in CopyCosts :
            CopyOrdered(position, cost)
    \/ \E measured \in RenderCosts, paintCost \in PaintCosts :
            MainloopRender(measured, paintCost)
    \/ \E cost \in IdleLineCosts : MainloopUpdate(<<cost>>)
    \/ \E w \in Workers, measured \in RenderCosts : WorkerOnMessage(w, measured)
    \/ \E w \in Workers, paintCost \in PaintCosts : WorkerReturn(w, paintCost)

SpecCopy == InitCopy /\ [][NextCopy]_vars

(***************************************************************************)
(* The scheduler with the delivery of its "mainloop" messages made fair: a *)
(* message that is queued is delivered, and the tick it calls runs.  No    *)
(* step of the application or of a worker is required to happen.  Time     *)
(* passes in the ticks.                                                    *)
(***************************************************************************)
\* a COPY tick, followed while the frame number is below MaxLiveFrameNr
LiveCopy(cost) ==
    /\ frameNr < MaxLiveFrameNr
    /\ CopyTick(cost, FALSE)

\* handleMessage: a queued "mainloop" message is delivered and mainloop runs
Delivered ==
    \/ \E cost \in CopyCosts : LiveCopy(cost)
    \/ \E measured \in RenderCosts, paintCost \in PaintCosts :
            MainloopRender(measured, paintCost)
    \/ \E cost \in IdleLineCosts : MainloopUpdate(<<cost>>)
    \/ MainloopOther

NextLive ==
    \/ Start
    \/ Stop
    \/ SetPosition(FALSE, TRUE)
    \/ Delivered
    \/ \E w \in Workers, measured \in RenderCosts : WorkerOnMessage(w, measured)
    \/ \E w \in Workers, paintCost \in PaintCosts : WorkerReturn(w, paintCost)

SpecLive == Init /\ [][NextLive]_vars /\ WF_vars(Delivered)

(***************************************************************************)
(* Properties                                                              *)
(***************************************************************************)
\* the edges of the state machine, with the mode each belongs to
EdgeAllowed(a, b) ==
    \/ b = STOP
    \/ a = STOP /\ b = COPY
    \/ a = COPY /\ b = UPDATE /\ ~disableWW
    \/ a = COPY /\ b = RENDER /\ disableWW
    \/ a = RENDER /\ b = PAINT
    \/ a = PAINT /\ b = UPDATE
    \/ a = RENDER /\ b = COPY
    \/ a = UPDATE /\ b = COPY

\* C1: whenever the scheduler's state changes, the values it takes in that step
\* follow only the edges STOP->COPY, COPY->UPDATE (workers enabled),
\* COPY->RENDER (workers disabled), RENDER->PAINT->UPDATE (with no drop
\* counted), RENDER->COPY (with a drop counted), UPDATE->COPY and any->STOP;
\* PAINT is left within the step that enters it, and the state is RENDER only
\* with workers disabled.
C1_OnlyTheseEdges ==
    [][/\ state' = RENDER => disableWW
       /\ state' # PAINT
       /\ state' # state =>
            /\ Head(hops') = state
            /\ hops'[Len(hops')] = state'
            /\ \A k \in 1..(Len(hops') - 1) : EdgeAllowed(hops'[k], hops'[k + 1])
            /\ hops' = <<RENDER, PAINT, UPDATE>> => cntDropped' = cntDropped
            /\ hops' = <<RENDER, COPY>> => cntDropped' = cntDropped + 1]_vars

\* C1 witness: an inline render was painted after an earlier one was dropped
C1_Witness == hops = <<RENDER, PAINT, UPDATE>> /\ cntDropped > 0

\* C2: no step's setPosition or updateLines call writes the pixels of a frame
\* that is in flight to a worker when the step begins (a COPY tick transfers
\* its frame after its setPosition calls), and the updateLines calls of an
\* UPDATE tick write the frame bound to the calc view, which is not in flight.
C2_NoWriteInFlight ==
    [][/\ written' \cap InFlight = {}
       /\ (tick' # tick /\ tick'.kind = UPDATE /\ tick'.starts # <<>>) =>
            /\ tick'.target = views[calcView].frame
            /\ tick'.target \notin InFlight]_vars

\* C2 witness: an UPDATE tick wrote a frame while another one was in flight
C2_Witness == tick.kind = UPDATE /\ written # {} /\ InFlight # {}

\* C3: calcView and dispView are two distinct views, one view0 and the other
\* view1, in every state from construction onward.
C3_DistinctViews ==
    /\ calcView # dispView
    /\ {calcView, dispView} = {view0, view1}

\* C4: a frame is bound to at most one view, and no view's frame slot holds a
\* frame that is in flight to a worker.
C4_InFlightUnbound ==
    /\ \A f \in 1..Len(fr) :
            Cardinality({v \in DOMAIN views : views[v].frame = f}) <= 1
    /\ \A f \in InFlight : \A v \in DOMAIN views : views[v].frame # f

\* C5: a frame that came back from the Renderer has been pushed to the free
\* pool once for every time it came back.
C5_PushedPerHandOff ==
    \A f \in DOMAIN fh : fh[f].pushed = fh[f].returned

\* C6: a frame that comes back from the Renderer with durationRENDER = 0 counts
\* one drop and is not given to onPutImageData; one that comes back with
\* durationRENDER > 0 is given to onPutImageData once and counts no drop; no
\* other step counts a drop.
C6_DropOrPaint ==
    [][/\ \A f \in DOMAIN fh :
            fh'[f].returned # fh[f].returned =>
                /\ fh'[f].returned = fh[f].returned + 1
                /\ IF fr'[f].durationRENDER = 0
                   THEN /\ cntDropped' = cntDropped + 1
                        /\ fh'[f].put = fh[f].put
                   ELSE /\ cntDropped' = cntDropped
                        /\ fh'[f].put = fh[f].put + 1
       /\ (\A f \in DOMAIN fh : fh'[f].returned = fh[f].returned) =>
            /\ cntDropped' = cntDropped
            /\ \A f \in DOMAIN fh : fh'[f].put = fh[f].put]_vars

\* C6 witness: with workers, one frame was dropped and one was painted
C6_Witness ==
    /\ ~disableWW
    /\ cntDropped > 0
    /\ \E f \in DOMAIN fh : fh[f].put > 0

\* C7: a zoomerRenderFrame call entered at or after the frame's deadline leaves
\* rgba, pixels and palette as they were and durationRENDER = 0; a call entered
\* before it fills rgba from the pixels and leaves durationRENDER > 0.
C7_ZeroExactlyWhenExpired ==
    Len(fr) = 2 =>
        IF clock >= fr[1].timeExpire
        THEN /\ fr[2].rgba = fr[1].rgba
             /\ fr[2].pixels = fr[1].pixels
             /\ fr[2].palette = fr[1].palette
             /\ fr[2].durationRENDER = 0
        ELSE /\ fr[2].rgba = ExtractView(fr[1])
             /\ fr[2].durationRENDER > 0

\* C8: a drop lowers frameRate by 5% and sets timeLastDrop to the time of the
\* drop exactly when more than 2000 ms have passed since timeLastDrop, and
\* leaves both alone otherwise; no other step changes either, so frameRate
\* never rises.
C8_DropThrottle ==
    [][/\ frameRate' <= frameRate
       /\ cntDropped' # cntDropped =>
            IF dropNow' - timeLastDrop > DropWindow
            THEN /\ frameRate' = frameRate - (frameRate * DropPercent) \div 100
                 /\ timeLastDrop' = dropNow'
            ELSE /\ frameRate' = frameRate
                 /\ timeLastDrop' = timeLastDrop
       /\ cntDropped' = cntDropped =>
            /\ frameRate' = frameRate
            /\ timeLastDrop' = timeLastDrop]_vars

\* C8 witness: a drop inside the window of the drop that lowered the rate
C8_Witness ==
    /\ cntDropped >= 2
    /\ timeLastDrop > 0
    /\ dropNow > timeLastDrop
    /\ frameRate = (DefaultFrameRate * 1000 * (100 - DropPercent)) \div 100

\* C9 as stated: every updateLines call of an UPDATE tick starts before both
\* the end of the tick's slice and the frame's syncpoint.
C9_BeforeSliceAndSync ==
    tick.kind = UPDATE =>
        \A k \in DOMAIN tick.starts :
            tick.starts[k] < Min(tick.t0 + DefaultUpdateSlice, tick.rawsync)

\* C9: every UPDATE tick makes at least one updateLines call, and each call
\* starts within the tick's slice, wherever the frame's syncpoint is.
C9_WithinOneSlice ==
    tick.kind = UPDATE =>
        /\ tick.starts # <<>>
        /\ \A k \in DOMAIN tick.starts :
                /\ tick.t0 <= tick.starts[k]
                /\ tick.starts[k] < tick.t0 + DefaultUpdateSlice

\* C9 witness: a tick that started past the syncpoint made two calls
C9_Witness ==
    /\ tick.kind = UPDATE
    /\ tick.t0 >= tick.rawsync
    /\ Len(tick.starts) = 2

\* C10 as stated: no tick takes more than updateSlice ms.
C10_EveryTickInSlice ==
    tick.kind # STOP => tick.end - tick.t0 <= DefaultUpdateSlice

\* C10: an UPDATE tick runs for at least one slice and exceeds it by less than
\* its last updateLines call took.
C10_UpdateOvershoot ==
    tick.kind = UPDATE =>
        /\ tick.end - tick.t0 >= DefaultUpdateSlice
        /\ tick.end - tick.lastCost < tick.t0 + DefaultUpdateSlice

\* C10 witness: an UPDATE tick that ran past its slice
C10_Witness ==
    /\ tick.kind = UPDATE
    /\ tick.end - tick.t0 > DefaultUpdateSlice
    /\ Len(tick.starts) = 2

\* the per-state start timestamps of the four working states
WorkStates == {COPY, UPDATE, RENDER, PAINT}

\* C11 as stated: an UPDATE tick that begins more than 2000 ms past the frame's
\* syncpoint resets the start timestamp of every state to its clock and leaves
\* the state at COPY.
C11_ResyncAfterTwoSeconds ==
    [][(tick' # tick /\ tick'.kind = UPDATE
            /\ views[calcView].frame # Undef
            /\ tick'.t0 - tick'.rawsync > 2000) =>
            /\ state' = COPY
            /\ \A s \in WorkStates : stateStart'[s] = clock']_vars

\* C11: an UPDATE tick of a calc view that has a frame, begun at or after the
\* frame's syncpoint, however late, ends one slice later (plus the overshoot of
\* its last updateLines call), sets the state to COPY and sets only
\* stateStart[COPY], to the time it ends; the whole time since UPDATE began is
\* averaged into avgStateDuration[UPDATE].  Whichever way it began, the tick
\* changes the state exactly when it ends at or after the syncpoint.
C11_LateUpdateGoesToCopy ==
    [][(tick' # tick /\ tick'.kind = UPDATE /\ views[calcView].frame # Undef) =>
            LET nextsync == NextSync(tick'.rawsync, tick'.t0, DefaultUpdateSlice)
            IN  /\ tick'.t0 >= tick'.rawsync =>
                    /\ nextsync = tick'.t0 + DefaultUpdateSlice
                    /\ tick'.end >= nextsync
                    /\ tick'.end - tick'.lastCost < nextsync
                /\ IF tick'.end >= nextsync
                   THEN /\ state' = COPY
                        /\ stateStart' = [stateStart EXCEPT ![COPY] = tick'.end]
                        /\ avgStateDuration' = [avgStateDuration EXCEPT
                              ![UPDATE] = LowPass(@, tick'.end - stateStart[UPDATE])]
                   ELSE /\ state' = state
                        /\ stateStart' = stateStart
                        /\ avgStateDuration' = avgStateDuration]_vars

\* C11 witness: an UPDATE tick begun more than 2000 ms past the syncpoint has
\* set the state to COPY and left the start timestamp of UPDATE where it was
C11_Witness ==
    /\ tick.kind = UPDATE
    /\ tick.t0 - tick.rawsync > 2000
    /\ state = COPY
    /\ stateStart[COPY] = tick.end
    /\ stateStart[UPDATE] < tick.t0 - 2000

\* the frames worker w still owes the main context, oldest first
Owed(w) == outbox[w] \o inbox[w]

\* C12: the frame a COPY tick hands over goes to the worker of the parity of
\* the frame number the tick sets, and the frames of one worker are handled on
\* their return (painted, or counted as dropped) in the order they were
\* submitted to it: each step leaves what a worker owes alone, or handles the
\* oldest frame it owes, or submits one more frame to it.
C12_PerWorkerOrder ==
    [][\A w \in Workers :
          \/ Owed(w)' = Owed(w)
          \/ /\ Owed(w) # <<>>
             /\ Owed(w)' = Tail(Owed(w))
             /\ fh'[Head(Owed(w))].returned = fh[Head(Owed(w))].returned + 1
             /\ fh'[Head(Owed(w))].put + fh'[Head(Owed(w))].dropped
                    = fh[Head(Owed(w))].put + fh[Head(Owed(w))].dropped + 1
          \/ /\ frameNr' = frameNr + 1
             /\ w = frameNr' % 2
             /\ \E f \in DOMAIN fh' :
                    /\ Owed(w)' = Append(Owed(w), f)
                    /\ fh'[f].handed = fh[f].handed + 1]_vars

\* C12 witness: a worker has posted one frame back and holds its successor,
\* after an earlier frame was painted or dropped
C12_Witness ==
    /\ \E w \in Workers : outbox[w] # <<>> /\ inbox[w] # <<>>
    /\ \E f \in DOMAIN fh : fh[f].put + fh[f].dropped > 0

\* C13: a mainloop message delivered while the state is STOP is consumed and
\* nothing else happens: no field of the scheduler, view or frame changes, no
\* callback is invoked and no further message is posted.
C13_StopTickIdle ==
    [][(state = STOP /\ pending' < pending) =>
            /\ pending' = pending - 1
            /\ written' = {}
            /\ UNCHANGED <<state, frameNr, viewWidth, viewHeight, views, view0,
                           view1, calcView, dispView, calcFrame, frames, fr,
                           inbox, outbox, clock, stateStart, avgStateDuration,
                           frameRate, timeLastDrop, timeLastWake, cntDropped,
                           fh>>]_vars

\* C13 witness: a message was consumed in state STOP after frames had run
C13_Witness ==
    /\ state = STOP
    /\ hops = <<STOP>>
    /\ pending = 0
    /\ frameNr > 0
    /\ clock > stateStart[COPY]

\* C14: the frame's quality is within 0 and 1: cntPixels does not exceed the
\* number of pixels of the frame.
C14_QualityInUnitRange ==
    vop.op # "none" =>
        /\ cframe.quality[1] >= 0
        /\ cframe.quality[1] <= cframe.quality[2]
        /\ cframe.cntPixels <= cframe.pixelWidth * cframe.pixelHeight

\* the maximal runs <<first, last>> of consecutive stops of the same from
RunsOf(from) ==
    {r \in (DOMAIN from) \X (DOMAIN from) :
        /\ r[1] <= r[2]
        /\ \A k \in r[1]..r[2] : from[k] = from[r[1]]
        /\ r[1] = 1 \/ from[r[1] - 1] # from[r[1]]
        /\ r[2] = Len(from) \/ from[r[2] + 1] # from[r[2]]}

\* in every run exactly one stop, one of the lowest error, keeps its from
ExactlyOneKept(made, marked, error) ==
    \A r \in RunsOf(made) :
        \E k \in r[1]..r[2] :
            /\ marked[k] = made[k]
            /\ \A m \in r[1]..r[2] : m # k => marked[m] = -1
            /\ \A m \in r[1]..r[2] : error[k] <= error[m]

\* in every run each stop keeps its from or is marked -1; every stop of the
\* run's lowest error keeps it; no stop that keeps it is next to a stop of the
\* run with a lower error
LowestKept(made, marked, error) ==
    \A r \in RunsOf(made) :
        /\ \A k \in r[1]..r[2] : marked[k] \in {made[k], -1}
        /\ \A k \in r[1]..r[2] :
                (\A m \in r[1]..r[2] : error[k] <= error[m]) => marked[k] = made[k]
        /\ \A k \in r[1]..r[2] : marked[k] = made[k] =>
                /\ k > r[1] => error[k] <= error[k - 1]
                /\ k < r[2] => error[k] <= error[k + 1]

\* C15 as stated: after setPosition, on each axis every run of stops that
\* makeRuler mapped to one previous index has exactly one stop that keeps its
\* from, the one of the smallest error, and all others are -1.
C15_ExactlyOneKept ==
    vop.op = "setPosition" =>
        /\ ExactlyOneKept(vop.X.from, cview.xFrom, cview.xError)
        /\ ExactlyOneKept(vop.Y.from, cview.yFrom, cview.yError)

\* C15: after setPosition, on each axis and in every run of stops that
\* makeRuler mapped to one previous index, every stop of the run's smallest
\* error keeps its from (two or more when they tie), every stop that keeps it
\* has no neighbour in the run with a smaller error, and all others are -1.
C15_LowestKept ==
    vop.op = "setPosition" =>
        /\ LowestKept(vop.X.from, cview.xFrom, cview.xError)
        /\ LowestKept(vop.Y.from, cview.yFrom, cview.yError)

\* C15 witness: a run in which two stops tie and keep their from while a
\* third is marked
C15_Witness ==
    /\ vop.op = "setPosition"
    /\ \E r \in RunsOf(vop.X.from) :
            /\ Cardinality({k \in r[1]..r[2] : cview.xFrom[k] # -1}) = 2
            /\ \E k \in r[1]..r[2] : cview.xFrom[k] = -1

\* C16: after setPosition against a previous view every new pixel is the old
\* pixel the rulers, as makeRuler built them, select:
\* pixels[j * pixelWidth + i] = oldPixels[yFrom[j] * oldPixelWidth + xFrom[i]];
\* a previous frame of one colour gives a new frame of that colour.
C16_WarpReindexes ==
    vop.op = "setPosition" =>
        /\ \A i \in 0..(cview.pixelWidth - 1), j \in 0..(cview.pixelHeight - 1) :
                cframe.pixels[j * cview.pixelWidth + i + 1] =
                    kview.pixels[vop.Y.from[j + 1] * kview.pixelWidth
                                 + vop.X.from[i + 1] + 1]
        /\ \A c \in 0..9 :
                (\A p \in DOMAIN kview.pixels : kview.pixels[p] = c) =>
                    \A p \in DOMAIN cframe.pixels : cframe.pixels[p] = c

\* C16 witness: a line was copied from the line above it, a later line was
\* extracted again, and the previous frame has more than one colour
C16_Witness ==
    /\ vop.op = "setPosition"
    /\ cview.pixelHeight = 3
    /\ vop.Y.from[1] = vop.Y.from[2]
    /\ vop.Y.from[2] # vop.Y.from[3]
    /\ vop.X.from[1] # vop.X.from[2]
    /\ kview.pixels[1] # kview.pixels[2]

\* the highest error of a view over both axes
MaxError(v) ==
    LET es == {v.xError[k] : k \in DOMAIN v.xError}
                \cup {v.yError[k] : k \in DOMAIN v.yError}
    IN  CHOOSE e \in es : \A d \in es : d <= e

\* the stops <<axis, index>> whose error the last call changed
ErrorsChanged ==
    {<<"x", k>> : k \in {m \in DOMAIN cview.xError :
                            cview.xError[m] # vop.view.xError[m]}}
    \cup {<<"y", k>> : k \in {m \in DOMAIN cview.yError :
                            cview.yError[m] # vop.view.yError[m]}}

\* C17: an updateLines call made while some error is not 0 sets exactly one
\* error to 0, one that was not 0 and was the highest over both axes, and
\* changes no other error; after pixelWidth + pixelHeight calls every error
\* is 0.
C17_ErrorsDriveToZero ==
    vop.op = "updateLines" =>
        /\ MaxError(vop.view) # 0 =>
            \E c \in ErrorsChanged :
                /\ ErrorsChanged = {c}
                /\ LET before == IF c[1] = "x" THEN vop.view.xError[c[2]]
                                 ELSE vop.view.yError[c[2]]
                       after == IF c[1] = "x" THEN cview.xError[c[2]]
                                ELSE cview.yError[c[2]]
                   IN  /\ before # 0
                       /\ before = MaxError(vop.view)
                       /\ after = 0
        /\ vop.n >= cview.pixelWidth + cview.pixelHeight => MaxError(cview) = 0

\* C17 witness: the call that set the last error to 0 was call number
\* pixelWidth + pixelHeight
C17_Witness ==
    /\ vop.op = "updateLines"
    /\ vop.n = cview.pixelWidth + cview.pixelHeight
    /\ MaxError(vop.view) # 0
    /\ MaxError(cview) = 0

\* the first index (of the source) of the highest error of one axis
FirstMax(error) ==
    (CHOOSE k \in DOMAIN error :
        /\ \A m \in DOMAIN error : error[m] <= error[k]
        /\ \A m \in 1..(k - 1) : error[m] < error[k]) - 1

\* C18: an updateLines call made while some error is not 0 recalculates one
\* line: the column of the first highest xError when that is higher than the
\* highest yError, else the row of the first highest yError.  Every point the
\* pixel function is called for lies on that line; afterwards the line's stop
\* has nearest = coord and error = 0, its line counter (cntVLines for a column,
\* cntHLines for a row) is one higher and the other counter is as before.
C18_OneLineRecalculated ==
    (vop.op = "updateLines" /\ MaxError(vop.view) # 0) =>
        LET old == vop.view
            i == FirstMax(old.xError)
            j == FirstMax(old.yError)
        IN  /\ vop.points # {}
            /\ IF old.xError[i + 1] > old.yError[j + 1]
               THEN /\ \A p \in vop.points : p[1] = old.xCoord[i + 1]
                    /\ cview.xNearest[i + 1] = cview.xCoord[i + 1]
                    /\ cview.xError[i + 1] = 0
                    /\ cview.xCoord = old.xCoord
                    /\ cview.yNearest = old.yNearest
                    /\ cframe.cntVLines = vop.frame.cntVLines + 1
                    /\ cframe.cntHLines = vop.frame.cntHLines
               ELSE /\ \A p \in vop.points : p[2] = old.yCoord[j + 1]
                    /\ cview.yNearest[j + 1] = cview.yCoord[j + 1]
                    /\ cview.yError[j + 1] = 0
                    /\ cview.yCoord = old.yCoord
                    /\ cview.xNearest = old.xNearest
                    /\ cframe.cntHLines = vop.frame.cntHLines + 1
                    /\ cframe.cntVLines = vop.frame.cntVLines

\* C18 witness: the highest errors of the two axes were the same, two rows
\* shared the highest, and the first of them was recalculated
C18_Witness ==
    /\ vop.op = "updateLines"
    /\ MaxError(vop.view) # 0
    /\ \E j \in DOMAIN cview.yError :
            /\ vop.view.yError[j] = MaxError(vop.view)
            /\ cview.yError[j] = 0
            /\ \E m \in DOMAIN cview.yError :
                    m > j /\ vop.view.yError[m] = MaxError(vop.view)
    /\ \E i \in DOMAIN cview.xError : vop.view.xError[i] = MaxError(vop.view)

\* C19: an updateLines call made when every error is 0 calls the pixel
\* function for no point and leaves the pixels, both rulers, cntPixels,
\* cntHLines, cntVLines and quality as they are.
C19_NoErrorNoWork ==
    (vop.op = "updateLines" /\ MaxError(vop.view) = 0) =>
        /\ vop.points = {}
        /\ cview = vop.view
        /\ cframe = vop.frame

\* C19 witness: a call found every error 0 after earlier calls recalculated
\* lines
C19_Witness ==
    /\ vop.op = "updateLines"
    /\ MaxError(vop.view) = 0
    /\ vop.n >= 2
    /\ cframe.cntHLines + cframe.cntVLines > vop.X.cntExact + vop.Y.cntExact

\* the stops of ruler R are each mapped to a previous stop that is nearest to
\* them, the one of the highest index among the equally near
NearestChosen(R, oldNearest) ==
    \A i \in DOMAIN R.coord :
        /\ R.from[i] + 1 \in DOMAIN oldNearest
        /\ R.nearest[i] = oldNearest[R.from[i] + 1]
        /\ R.error[i] = Abs(R.coord[i] - R.nearest[i])
        /\ \A k \in DOMAIN oldNearest :
                /\ Abs(R.coord[i] - oldNearest[k]) >= R.error[i]
                /\ k > R.from[i] + 1 => Abs(R.coord[i] - oldNearest[k]) > R.error[i]

\* C20: for a previous axis whose nearest coordinates do not decrease and a
\* range with start <= end, makeRuler maps every new stop to a previous stop
\* than which none is nearer to the stop's coordinate, the one of the highest
\* index among the equally near.
C20_NearestOldStop ==
    vop.op = "setPosition" =>
        /\ NearestChosen(vop.X, kview.xNearest)
        /\ NearestChosen(vop.Y, kview.yNearest)

\* C20 witness: a stop lies midway between two previous stops of different
\* coordinates and is mapped to the later one
C20_Witness ==
    /\ vop.op = "setPosition"
    /\ \E i \in DOMAIN vop.X.coord : \E k \in DOMAIN kview.xNearest :
            /\ k < vop.X.from[i] + 1
            /\ kview.xNearest[k] # vop.X.nearest[i]
            /\ Abs(vop.X.coord[i] - kview.xNearest[k]) = vop.X.error[i]

C22_ReturnsWithEveryStop ==
    vop.op = "makeRuler" =>
        /\ vop.R.returns
        /\ Len(vop.R.nearest) = kview.n
        /\ Len(vop.R.error) = kview.n
        /\ Len(vop.R.from) = kview.n

\* two adjacent stops of the ruler have the same coordinate
AdjacentEqual(coord) == \E k \in 1..(Len(coord) - 1) : coord[k] = coord[k + 1]

\* C23: setPosition without a previous view completes and leaves both rulers
\* linearly initialised, each from its own range: coord = nearest = the linear
\* tiling, error = 0 and from = -1 at every x stop and every y stop; the bound
\* frame is left as it was.
C23_BothRulersLinear ==
    vop.op = "setPosition" =>
        LET hor == (vop.radius * cview.pixelWidth)
                      \div (IF cview.viewWidth > cview.viewHeight
                            THEN cview.viewHeight ELSE cview.viewWidth)
            ver == (vop.radius * cview.pixelHeight)
                      \div (IF cview.viewWidth > cview.viewHeight
                            THEN cview.viewHeight ELSE cview.viewWidth)
        IN  /\ ~vop.throws
            /\ \A i \in 1..cview.pixelWidth :
                    /\ cview.xCoord[i] = LinearStop(i - 1, cview.pixelWidth,
                                            vop.center - hor, vop.center + hor)
                    /\ cview.xNearest[i] = cview.xCoord[i]
                    /\ cview.xError[i] = 0
                    /\ cview.xFrom[i] = -1
            /\ \A j \in 1..cview.pixelHeight :
                    /\ cview.yCoord[j] = LinearStop(j - 1, cview.pixelHeight,
                                            vop.center - ver, vop.center + ver)
                    /\ cview.yNearest[j] = cview.yCoord[j]
                    /\ cview.yError[j] = 0
                    /\ cview.yFrom[j] = -1
            /\ cframe = vop.frame

\* C24: reachedLimits returns true exactly when two adjacent stops of the x
\* ruler or two adjacent stops of the y ruler have the same coordinate.
C24_LimitsIffAdjacentEqual ==
    vop.op = "reachedLimits" =>
        (vop.result <=> (AdjacentEqual(cview.xCoord) \/ AdjacentEqual(cview.yCoord)))

\* C25: n frames of the same dimensions allocated from the empty pool, all n
\* released, and n frames of those dimensions allocated again: the second n
\* are the first n, in the order of their release, and the heap holds no
\* other frame.
C25_ReusedInReleaseOrder ==
    vop.op = "pool" =>
        \A n \in 1..MaxPoolOps :
            LET log == vop.log
                round ==
                    /\ Len(log) = 3 * n
                    /\ \A k \in 1..n :
                            /\ log[k].op = "alloc"
                            /\ log[n + k].op = "release"
                            /\ log[2 * n + k].op = "alloc"
                            /\ log[k].dims = log[1].dims
                            /\ log[2 * n + k].dims = log[1].dims
            IN  round =>
                    /\ \A k \in 1..n : log[2 * n + k].id = log[n + k].id
                    /\ {log[2 * n + k].id : k \in 1..n} = {log[k].id : k \in 1..n}
                    /\ Cardinality({log[2 * n + k].id : k \in 1..n}) = n
                    /\ Len(fr) = n

\* two frames allocated from the empty pool, released in the other order and
\* allocated again
C25_Witness ==
    /\ vop.op = "pool"
    /\ Len(vop.log) = 6
    /\ \A k \in 1..2 :
            /\ vop.log[k].op = "alloc"
            /\ vop.log[2 + k].op = "release"
            /\ vop.log[4 + k].op = "alloc"
            /\ vop.log[k].dims = vop.log[1].dims
            /\ vop.log[4 + k].dims = vop.log[1].dims
    /\ vop.log[3].id = vop.log[2].id
    /\ vop.log[5].id = vop.log[2].id
    /\ vop.log[6].id = vop.log[1].id

\* C26: the frame allocFrame returns has the four dimensions and the angle
\* asked for and statistics of 0; a pooled frame it met before that one has
\* other dimensions, is out of the pool and is returned by no later call.
C26_AllocatedFrameFits ==
    [][(/\ vop'.op = "pool"
        /\ Len(vop'.log) = Len(vop.log) + 1
        /\ vop'.log[Len(vop'.log)].op = "alloc") =>
            LET e == vop'.log[Len(vop'.log)]
                f == fr'[e.id]
            IN  /\ <<f.viewWidth, f.viewHeight, f.pixelWidth, f.pixelHeight>>
                        = e.dims
                /\ f.angle = e.angle
                /\ f.durationRENDER = 0
                /\ f.cntPixels = 0
                /\ f.cntHLines = 0
                /\ f.cntVLines = 0
                /\ \A g \in e.met :
                        /\ <<fr[g].viewWidth, fr[g].viewHeight,
                              fr[g].pixelWidth, fr[g].pixelHeight>> # e.dims
                        /\ \A k \in DOMAIN frames' : frames'[k] # g
                /\ \A k \in DOMAIN vop.log : e.id \notin vop.log[k].met]_vars

\* a call met a pooled frame of other dimensions and returned a released one
\* behind it; a later call asked for the dimensions of the frame that was met
C26_Witness ==
    /\ vop.op = "pool"
    /\ \E k \in DOMAIN vop.log, l \in DOMAIN vop.log :
            /\ k < l
            /\ vop.log[k].op = "alloc"
            /\ vop.log[k].met # {}
            /\ \E j \in 1..(k - 1) :
                    vop.log[j].op = "release" /\ vop.log[j].id = vop.log[k].id
            /\ vop.log[l].op = "alloc"
            /\ \E g \in vop.log[k].met :
                    <<fr[g].viewWidth, fr[g].viewHeight, fr[g].pixelWidth,
                      fr[g].pixelHeight>> = vop.log[l].dims

\* C27: with angle 0 and a palette, a frame rendered before it expires has
\* rgba[v * viewWidth + u] = palette[pixels[(j0 + v) * pixelWidth + i0 + u]]
\* for every point (u, v) of the view, with i0 and j0 half the surplus of the
\* pixel dimensions; pixels and palette are left as they were.
C27_PaletteTranslated ==
    (/\ Len(fr) = 2
     /\ fr[1].angle = 0
     /\ fr[1].palette # NoPalette
     /\ clock < fr[1].timeExpire) =>
        LET f == fr[1]
            i0 == (f.pixelWidth - f.viewWidth) \div 2
            j0 == (f.pixelHeight - f.viewHeight) \div 2
        IN  /\ \A u \in 0..(f.viewWidth - 1), v \in 0..(f.viewHeight - 1) :
                    fr[2].rgba[v * f.viewWidth + u + 1]
                        = f.palette[f.pixels[(j0 + v) * f.pixelWidth + i0 + u + 1] + 1]
            /\ fr[2].pixels = f.pixels
            /\ fr[2].palette = f.palette

\* a frame with more storage than view, rendered through the palette with both
\* colours on the view
C27_Witness ==
    /\ Len(fr) = 2
    /\ fr[1].palette # NoPalette
    /\ clock < fr[1].timeExpire
    /\ fr[1].pixelWidth + fr[1].pixelHeight > fr[1].viewWidth + fr[1].viewHeight
    /\ \E p \in DOMAIN fr[2].rgba, q \in DOMAIN fr[2].rgba :
            fr[2].rgba[p] # fr[2].rgba[q]
    /\ fr[2].rgba # [k \in DOMAIN fr[2].rgba |->
                        fr[1].palette[fr[1].pixels[k] + 1]]

\* C28: the storage dimensions are at least the view dimensions; without
\* rotation they are the view dimensions, and with rotation both are
\* ceil(sqrt(viewWidth^2 + viewHeight^2)), so that the square of the storage
\* width is at least the square of the view's diagonal.
C28_StorageCoversDiagonal ==
    vop.op = "dims" =>
        /\ vop.pixelWidth >= viewWidth
        /\ vop.pixelHeight >= viewHeight
        /\ ~vop.enableAngle =>
                vop.pixelWidth = viewWidth /\ vop.pixelHeight = viewHeight
        /\ vop.enableAngle =>
                /\ vop.pixelWidth = vop.pixelHeight
                /\ vop.pixelWidth
                        = CeilSqrt(viewWidth * viewWidth + viewHeight * viewHeight)
                /\ vop.pixelWidth * vop.pixelWidth
                        >= viewWidth * viewWidth + viewHeight * viewHeight

\* C30: an UPDATE tick sets the state to COPY exactly when its update loop
\* ends at or after nextsync, and then adds the time past nextsync to
\* timeOvershoot; otherwise the state and the start timestamps stay as they
\* were; either way the tick posts one "mainloop" message.
C30_SyncEndsUpdate ==
    [][(tick' # tick /\ tick'.kind = UPDATE) =>
            LET nextsync == NextSync(tick'.rawsync, tick'.t0, DefaultUpdateSlice)
            IN  /\ IF tick'.end >= nextsync
                   THEN /\ state' = COPY
                        /\ tick'.overshoot = tick'.end - nextsync
                   ELSE /\ state' = UPDATE
                        /\ stateStart' = stateStart
                        /\ tick'.overshoot = 0
                /\ pending' = pending]_vars

\* C30 witness: an UPDATE tick begun before its syncpoint, some time into the
\* UPDATE state, ended past the syncpoint and set the state to COPY
C30_Witness ==
    /\ tick.kind = UPDATE
    /\ state = COPY
    /\ tick.t0 < tick.rawsync
    /\ tick.t0 >= stateStart[UPDATE] + DefaultUpdateSlice
    /\ tick.overshoot > 0
    /\ tick.overshoot = tick.end - NextSync(tick.rawsync, tick.t0, DefaultUpdateSlice)

\* C29: an UPDATE tick takes its syncpoint from the idle burst,
\* stateStart[COPY] + updateIdleBurst, exactly when the wake timestamp is set
\* and at least wakeTimeout ms have passed since.
C29_IdleAfterWakeTimeout ==
    [][(tick' # tick /\ tick'.kind = UPDATE) =>
            ((tick'.rawsync = stateStart[COPY] + DefaultUpdateIdleBurst)
                <=> (/\ timeLastWake # 0
                     /\ tick'.t0 - timeLastWake >= DefaultWakeTimeout))]_vars

\* C31: a COPY tick that runs to its end does its steps in this order: a frame
\* is allocated (onInitFrame), the previous frame's timeExpire becomes
\* now + 2 * (1000 / frameRate), the new calculating view is positioned against
\* the old displayed view at the position in force when the tick began,
\* onBeginFrame is called, and with workers the previous frame is then given to
\* onRenderFrame and posted to the worker with that timeExpire.  The position
\* onBeginFrame sets is the scheduler's position after the tick, not the one
\* the view was given.
C31_CopyStepsInOrder ==
    [][(vop'.op = "COPY" /\ frameNr' # frameNr /\ ~vop'.crash) =>
            LET log == vop'.log
                steps == [k \in DOMAIN log |-> log[k].step]
                previousFrame == views[calcView].frame
            IN  /\ steps = IF disableWW
                           THEN <<"onInitFrame", "timeExpire", "setPosition",
                                  "onBeginFrame">>
                           ELSE <<"onInitFrame", "timeExpire", "setPosition",
                                  "onBeginFrame", "onRenderFrame",
                                  "postMessage">>
                /\ log[1].frame = calcFrame'
                /\ log[2].frame = previousFrame
                /\ log[2].value = log[2].at + 2 * Period(frameRate)
                /\ fr'[previousFrame].timeExpire = log[2].value
                /\ log[3].frame = calcFrame'
                /\ views'[calcView'].frame = calcFrame'
                /\ dispView' = calcView
                /\ log[3].value = kview
                /\ cview'[calcView'] = kview
                /\ log[4].value = kview'
                /\ ~disableWW =>
                        /\ log[5].frame = previousFrame
                        /\ log[5].value = log[2].value
                        /\ log[6].frame = previousFrame
                        /\ log[6].value = log[2].value
                        /\ inbox'[WorkerOf(frameNr')] =
                                Append(inbox[WorkerOf(frameNr')], previousFrame)
       ]_vars

\* a second COPY tick with workers has run to its end, and its callback set a
\* position other than the one its view was given
C31_Witness ==
    /\ vop.op = "COPY"
    /\ ~vop.crash
    /\ ~disableWW
    /\ frameNr >= 2
    /\ Len(vop.log) = 6
    /\ kview # cview[calcView]

\* the crossing indices (of the source) at which a recalculated line calls the
\* pixel function: 0, and every stop that is exact or inherited
Recalculated(error, from) ==
    {k \in 0..(Len(error) - 1) : k = 0 \/ error[k + 1] = 0 \/ from[k + 1] # -1}

\* the nearest index of `calculated` at or before k
LastAtOrBefore(calculated, k) ==
    CHOOSE m \in calculated : m <= k /\ \A n \in calculated : n <= k => n <= m

\* C32: a column update at column i stores calc(xCoord[i], yCoord[j]) at row j
\* of the column for j = 0 and for every row j >= 1 with yError[j] = 0 or
\* yFrom[j] # -1, and at every other row the value stored at the nearest
\* recalculated row before it; cntPixels grows by the number of rows
\* calculated, which is at least 1 and at most pixelHeight.  A row update does
\* the same with x and y exchanged.
C32_LineCarriesLastValue ==
    (vop.op = "updateLines" /\ MaxError(vop.view) # 0) =>
        LET old == vop.view
            pw == old.pixelWidth
            ph == old.pixelHeight
            i == FirstMax(old.xError)
            j == FirstMax(old.yError)
            rows == Recalculated(old.yError, old.yFrom)
            columns == Recalculated(old.xError, old.xFrom)
            grown == cframe.cntPixels - vop.frame.cntPixels
        IN  IF old.xError[i + 1] > old.yError[j + 1]
            THEN /\ \A r \in 0..(ph - 1) :
                        cframe.pixels[r * pw + i + 1] =
                            Calc(old.xCoord[i + 1],
                                 old.yCoord[LastAtOrBefore(rows, r) + 1])
                 /\ grown = Cardinality(rows)
                 /\ grown >= 1
                 /\ grown <= ph
                 /\ Cardinality(vop.points) <= grown
            ELSE /\ \A c \in 0..(pw - 1) :
                        cframe.pixels[j * pw + c + 1] =
                            Calc(old.xCoord[LastAtOrBefore(columns, c) + 1],
                                 old.yCoord[j + 1])
                 /\ grown = Cardinality(columns)
                 /\ grown >= 1
                 /\ grown <= pw
                 /\ Cardinality(vop.points) <= grown

\* C32 witness: a column was recalculated in which a row that is neither exact
\* nor inherited took the value of the row before it, another value than the
\* pixel function has at its own coordinate
C32_Witness ==
    /\ vop.op = "updateLines"
    /\ MaxError(vop.view) # 0
    /\ LET old == vop.view
           i == FirstMax(old.xError)
           j == FirstMax(old.yError)
       IN  /\ old.xError[i + 1] > old.yError[j + 1]
           /\ \E r \in 1..(old.pixelHeight - 1) :
                /\ r \notin Recalculated(old.yError, old.yFrom)
                /\ cframe.pixels[r * old.pixelWidth + i + 1] #
                        Calc(old.xCoord[i + 1], old.yCoord[r + 1])

\* the stops of ruler R, made by makeRuler from the source ruler oldNearest,
\* point into the source ruler, in order; `marked` is R.from after the
\* duplicate marking of setPosition
FromWithinSource(R, oldNearest, marked) ==
    /\ Len(R.from) = Len(R.coord)
    /\ \A i \in DOMAIN R.from :
        /\ R.from[i] \in 0..(Len(oldNearest) - 1)
        /\ R.nearest[i] = oldNearest[R.from[i] + 1]
        /\ R.error[i] = Abs(R.coord[i] - R.nearest[i])
        /\ R.error[i] >= 0
        /\ i > 1 => R.from[i - 1] <= R.from[i]
        /\ marked[i] \in {-1, R.from[i]}
        /\ marked[i] \in {-1} \cup (0..(Len(oldNearest) - 1))

\* C33: after makeRuler against a previous axis of M >= 1 stops, every new
\* stop i has from[i] in 0..M-1, nearest[i] = oldNearest[from[i]] and
\* error[i] = |coord[i] - nearest[i]| >= 0, and from does not decrease with i;
\* after the duplicate marking of setPosition, and after any updateLines
\* calls, every from[i] is -1 or the value makeRuler gave it.
C33_FromWithinSource ==
    vop.op \in {"setPosition", "updateLines"} =>
        /\ FromWithinSource(vop.X, kview.xNearest, cview.xFrom)
        /\ FromWithinSource(vop.Y, kview.yNearest, cview.yFrom)

\* C33 witness: setPosition has marked a duplicate on the x axis, and another
\* x stop still points at a source stop other than the first
C33_Witness ==
    /\ vop.op = "setPosition"
    /\ \E i \in DOMAIN cview.xFrom : cview.xFrom[i] = -1 /\ vop.X.from[i] # -1
    /\ \E i \in DOMAIN cview.xFrom : cview.xFrom[i] >= 1

\* C34: at any time at most one "mainloop" self-message is queued, whatever
\* the order of start(), stop(), mainloop ticks and worker returns.
C34_OneMessagePending == pending <= 1

\* the frames in the free pool
Pooled == {frames[k] : k \in DOMAIN frames}

\* C35: no frame is in the free pool and at the same time in flight to a
\* worker or bound to the calculating view, and no frame is in the pool twice;
\* the frame a COPY tick is about to read as the source of the inheritance
\* (the frame of the view that becomes the displayed view) is neither in
\* flight nor in the pool.
C35_PoolSafe ==
    /\ \A a, b \in DOMAIN frames : a # b => frames[a] # frames[b]
    /\ Pooled \cap InFlight = {}
    /\ views[calcView].frame \notin Pooled
    /\ (state = COPY /\ pending > 0) =>
            views[calcView].frame \notin (InFlight \cup Pooled)

\* C35 witness: a COPY tick is about to run with a frame bound to the
\* calculating view while another frame is in the pool and a third is in
\* flight
C35_Witness ==
    /\ state = COPY
    /\ pending > 0
    /\ views[calcView].frame # Undef
    /\ frames # <<>>
    /\ InFlight # {}

\* the coordinates of ruler r do not decrease
NonDecreasing(r) == \A k \in 1..(Len(r) - 1) : r[k] <= r[k + 1]

\* C36: when the previous view's xNearest and yNearest do not decrease, the
\* view's own xNearest and yNearest do not decrease after setPosition against
\* it, nor after any number of updateLines calls that follow.
C36_NearestStaysMonotone ==
    (/\ vop.op \in {"setPosition", "updateLines"}
     /\ NonDecreasing(kview.xNearest)
     /\ NonDecreasing(kview.yNearest)) =>
        /\ NonDecreasing(cview.xNearest)
        /\ NonDecreasing(cview.yNearest)

\* C37: while the scheduler is not stopped and its messages are delivered,
\* every UPDATE phase ends, and after every COPY tick another COPY tick starts
\* a new frame, with workers and without, whether or not frames are dropped
\* and whether or not a worker returns a frame.  Frames are followed up to
\* number MaxLiveFrameNr and while fewer than MaxFrames frames exist.
C37_CopyReachedAgain ==
    /\ (state = UPDATE) ~> (state # UPDATE)
    /\ \A n \in 1..(MaxLiveFrameNr - 1) :
            (state # STOP /\ frameNr = n)
                ~> (state = STOP \/ frameNr > n \/ Len(fr) >= MaxFrames)

\* C38: whenever a COPY tick starts a frame, the view that becomes the
\* displayed view has a frame bound to it, in worker and in inline mode, after
\* drops and resizes, and whether or not setPosition was called with a key
\* view before start().
C38_CopyFindsFrame ==
    [][frameNr' # frameNr => views'[dispView'].frame # Undef]_vars

\* the number of stops of a ruler whose error is 0
ExactCount(error) == Cardinality({k \in DOMAIN error : error[k] = 0})

\* C39: for a frame allocated anew and bound by setPosition against a previous
\* view, after any number of updateLines calls cntHLines + cntVLines is the
\* number of x stops with xError = 0 plus the number of y stops with
\* yError = 0.
C39_LinesCountExactStops ==
    vop.op \in {"setPosition", "updateLines"} =>
        cframe.cntHLines + cframe.cntVLines =
            ExactCount(cview.xError) + ExactCount(cview.yError)

\* C39 witness: setPosition found exact stops on both axes, and updateLines
\* calls have since recalculated at least one row and one column
C39_Witness ==
    /\ vop.op = "updateLines"
    /\ vop.X.cntExact >= 1
    /\ vop.Y.cntExact >= 1
    /\ ExactCount(cview.xError) > vop.X.cntExact
    /\ ExactCount(cview.yError) > vop.Y.cntExact
    /\ cframe.cntHLines + cframe.cntVLines >= 4

=============================================================================
